---- MODULE Spec2Model ----
(***************************************************************************)
(* Model of the cibuildwheel build drivers:                                *)
(*   cibuildwheel/linux.py  (docker based driver)                          *)
(*   cibuildwheel/macos.py  (native driver)                                *)
(* Strings that the code inspects with startswith / endswith are written   *)
(* as sequences of tokens, e.g. 'cp27-macosx_x86_64' is                    *)
(* <<"cp", "27", "-", "macosx", "_", "x86_64">>, so that prefix and suffix *)
(* tests are computed and not assumed.                                     *)
(***************************************************************************)
EXTENDS Integers, Sequences, FiniteSets, TLC

VARIABLES
    host,                   \* "linux" | "macos": which driver's build() runs
    options,                \* the arguments of build()
    macos_version,          \* macos: platform.mac_ver() split at ".", as integers
    machine_arch,           \* macos: platform.machine()
    pc,                     \* position of the driver inside build()
    exc,                    \* exception in flight ("none" when there is none)
    python_configurations,  \* result of get_python_configurations
    warnings,               \* log.warning calls made so far
    platform_index,         \* linux: index into `platforms`
    platform_configs,       \* linux: configurations of the current platform
    config_index,           \* index of `config` in the list being iterated
    container_name,         \* linux: name of the current container (0: none yet)
    containers,             \* linux: containers that exist in the docker engine
    docker_log,             \* linux: docker commands issued, in order
    child,                  \* linux: state of the docker child of run_docker
    returncode,             \* linux: process.returncode of `docker start`
    script_pc,              \* linux: position inside the bash script
    built_wheel_dir,        \* files in built_wheel
    repaired_wheel_dir,     \* files in repaired_wheel(s)
    built_wheel,            \* the wheel picked after the build step
    repaired_wheel,         \* the wheel(s) picked after the repair step
    container_output,       \* linux: files in the container's /output
    output_dir,             \* files in the host output directory
    step_log,               \* steps run so far: [n: configuration number, step, ok, arg]
    temp_dirs,              \* macos: temporary directories that exist
    SYMLINKS_DIR,           \* macos: the links in /tmp/cibw_bin
    testing_archs,          \* macos: architectures the current wheel is tested on
    testing_index,          \* macos: index of testing_arch in testing_archs
    repo,                   \* make_dependency_update_pr: the git repository
    shell_log,              \* make_dependency_update_pr: commands run, in order
    previous_branch,        \* make_dependency_update_pr: local of main()
    branch_name             \* make_dependency_update_pr: local of main()

vars == <<host, options, macos_version, machine_arch, pc, exc,
          python_configurations, warnings, platform_index, platform_configs,
          config_index, container_name, containers, docker_log, child, returncode,
          script_pc, built_wheel_dir, repaired_wheel_dir, built_wheel,
          repaired_wheel, container_output, output_dir, step_log, temp_dirs,
          SYMLINKS_DIR, testing_archs, testing_index, repo, shell_log,
          previous_branch, branch_name>>

\* the state of make_dependency_update_pr, which no driver touches
PrOnly == <<repo, shell_log, previous_branch, branch_name>>

\* make_dependency_update_pr is not running
NoPr ==
    /\ repo = [HEAD |-> "none"]
    /\ shell_log = <<>>
    /\ previous_branch = "none"
    /\ branch_name = "none"

(***************************************************************************)
(* Bounds of the model.                                                    *)
(***************************************************************************)
\* at most this many identifiers are accepted by the build selector of a run
MaxSelected == 2

(***************************************************************************)
(* String helpers (str.startswith, str.endswith on token sequences).       *)
(***************************************************************************)
StartsWith(s, prefix) ==
    /\ Len(s) >= Len(prefix)
    /\ SubSeq(s, 1, Len(prefix)) = prefix

EndsWith(s, suffix) ==
    /\ Len(s) >= Len(suffix)
    /\ SubSeq(s, Len(s) - Len(suffix) + 1, Len(s)) = suffix

Range(s) == {s[i] : i \in 1..Len(s)}

Last(seq) == seq[Len(seq)]

(***************************************************************************)
(* linux.py: the catalog and get_python_configurations.                    *)
(***************************************************************************)
LinuxConfig(v, py, arch, p) ==
    [version |-> v, identifier |-> py \o <<"-", "manylinux", "_", arch>>, path |-> p]

\* variant of the catalog: the second Python 2.7 entry of x86_64 repeats the
\* first instead of naming the other ABI
LinuxCatalogOneAbi ==
    << LinuxConfig(<<"2", ".", "7">>, <<"cp", "27">>, "x86_64", <<"/opt/python/", "cp27-cp27m">>),
       LinuxConfig(<<"2", ".", "7">>, <<"cp", "27">>, "x86_64", <<"/opt/python/", "cp27-cp27m">>),
       LinuxConfig(<<"3", ".", "5">>, <<"cp", "35">>, "x86_64", <<"/opt/python/", "cp35-cp35m">>),
       LinuxConfig(<<"3", ".", "6">>, <<"cp", "36">>, "x86_64", <<"/opt/python/", "cp36-cp36m">>),
       LinuxConfig(<<"3", ".", "7">>, <<"cp", "37">>, "x86_64", <<"/opt/python/", "cp37-cp37m">>),
       LinuxConfig(<<"3", ".", "8">>, <<"cp", "38">>, "x86_64", <<"/opt/python/", "cp38-cp38">>),
       LinuxConfig(<<"2", ".", "7">>, <<"cp", "27">>, "i686", <<"/opt/python/", "cp27-cp27m">>),
       LinuxConfig(<<"2", ".", "7">>, <<"cp", "27">>, "i686", <<"/opt/python/", "cp27-cp27mu">>),
       LinuxConfig(<<"3", ".", "5">>, <<"cp", "35">>, "i686", <<"/opt/python/", "cp35-cp35m">>),
       LinuxConfig(<<"3", ".", "6">>, <<"cp", "36">>, "i686", <<"/opt/python/", "cp36-cp36m">>),
       LinuxConfig(<<"3", ".", "7">>, <<"cp", "37">>, "i686", <<"/opt/python/", "cp37-cp37m">>),
       LinuxConfig(<<"3", ".", "8">>, <<"cp", "38">>, "i686", <<"/opt/python/", "cp38-cp38">>) >>

LinuxCatalog ==
    << LinuxConfig(<<"2", ".", "7">>, <<"cp", "27">>, "x86_64", <<"/opt/python/", "cp27-cp27m">>),
       LinuxConfig(<<"2", ".", "7">>, <<"cp", "27">>, "x86_64", <<"/opt/python/", "cp27-cp27mu">>),
       LinuxConfig(<<"3", ".", "5">>, <<"cp", "35">>, "x86_64", <<"/opt/python/", "cp35-cp35m">>),
       LinuxConfig(<<"3", ".", "6">>, <<"cp", "36">>, "x86_64", <<"/opt/python/", "cp36-cp36m">>),
       LinuxConfig(<<"3", ".", "7">>, <<"cp", "37">>, "x86_64", <<"/opt/python/", "cp37-cp37m">>),
       LinuxConfig(<<"3", ".", "8">>, <<"cp", "38">>, "x86_64", <<"/opt/python/", "cp38-cp38">>),
       LinuxConfig(<<"2", ".", "7">>, <<"cp", "27">>, "i686", <<"/opt/python/", "cp27-cp27m">>),
       LinuxConfig(<<"2", ".", "7">>, <<"cp", "27">>, "i686", <<"/opt/python/", "cp27-cp27mu">>),
       LinuxConfig(<<"3", ".", "5">>, <<"cp", "35">>, "i686", <<"/opt/python/", "cp35-cp35m">>),
       LinuxConfig(<<"3", ".", "6">>, <<"cp", "36">>, "i686", <<"/opt/python/", "cp36-cp36m">>),
       LinuxConfig(<<"3", ".", "7">>, <<"cp", "37">>, "i686", <<"/opt/python/", "cp37-cp37m">>),
       LinuxConfig(<<"3", ".", "8">>, <<"cp", "38">>, "i686", <<"/opt/python/", "cp38-cp38">>) >>

\* build_selector(identifier): the selector is the set of identifiers it accepts
build_selector(selector, identifier) == identifier \in selector

\* variant of get_python_configurations: one configuration per identifier
LinuxOnePerIdentifier(selector) ==
    LET chosen == SelectSeq(LinuxCatalog, LAMBDA c : build_selector(selector, c.identifier))
    IN  SelectSeq(chosen, LAMBDA c : \A i \in 1..Len(chosen) :
                      (chosen[i] = c) =>
                          \A j \in 1..(i - 1) : chosen[j].identifier # c.identifier)

LinuxGetPythonConfigurations(selector) ==
    SelectSeq(LinuxCatalog, LAMBDA c : build_selector(selector, c.identifier))

\* the `platforms` list of build(): the platform tags, in order
LinuxPlatforms == << <<"manylinux", "_", "x86_64">>, <<"manylinux", "_", "i686">> >>

PlatformConfigs(configs, platform_tag) ==
    SelectSeq(configs, LAMBDA c : EndsWith(c.identifier, platform_tag))

(***************************************************************************)
(* macos.py: get_macos_version, the catalog and get_python_configurations. *)
(***************************************************************************)
\* Python's comparison of tuples of integers: a >= b
RECURSIVE TupleGE(_, _)
TupleGE(a, b) ==
    IF b = <<>> THEN TRUE
    ELSE IF a = <<>> THEN FALSE
    ELSE IF Head(a) # Head(b) THEN Head(a) > Head(b)
    ELSE TupleGE(Tail(a), Tail(b))

\* tuple(map(int, version_str.split(".")[:2]))
get_macos_version(version_str) ==
    SubSeq(version_str, 1, IF Len(version_str) < 2 THEN Len(version_str) ELSE 2)

MacConfig(v, py, arch, u) ==
    [version |-> v, identifier |-> py \o <<"-", "macosx", "_", arch>>, url |-> u]

MacCatalog ==
    << MacConfig(<<"2", ".", "7">>, <<"cp", "27">>, "x86_64", "python-2.7.18-macosx10.9.pkg"),
       MacConfig(<<"3", ".", "5">>, <<"cp", "35">>, "x86_64", "python-3.5.4-macosx10.6.pkg"),
       MacConfig(<<"3", ".", "6">>, <<"cp", "36">>, "x86_64", "python-3.6.8-macosx10.9.pkg"),
       MacConfig(<<"3", ".", "7">>, <<"cp", "37">>, "x86_64", "python-3.7.9-macosx10.9.pkg"),
       MacConfig(<<"3", ".", "8">>, <<"cp", "38">>, "x86_64", "python-3.8.7-macosx10.9.pkg"),
       MacConfig(<<"3", ".", "9">>, <<"cp", "39">>, "x86_64", "python-3.9.1-macos11.0.pkg"),
       MacConfig(<<"3", ".", "9">>, <<"cp", "39">>, "universal2", "python-3.9.1-macos11.0.pkg"),
       MacConfig(<<"3", ".", "9">>, <<"cp", "39">>, "arm64", "python-3.9.1-macos11.0.pkg"),
       MacConfig(<<"2", ".", "7">>, <<"pp", "27">>, "x86_64", "pypy2.7-v7.3.3-osx64.tar.bz2"),
       MacConfig(<<"3", ".", "6">>, <<"pp", "36">>, "x86_64", "pypy3.6-v7.3.3-osx64.tar.bz2"),
       MacConfig(<<"3", ".", "7">>, <<"pp", "37">>, "x86_64", "pypy3.7-v7.3.3-osx64.tar.bz2") >>

\* the two list comprehensions before the OS version test
MacSelected(selector, architectures) ==
    SelectSeq(
        SelectSeq(MacCatalog,
                  LAMBDA c : \E a \in architectures : EndsWith(c.identifier, <<a>>)),
        LAMBDA c : build_selector(selector, c.identifier))

IsPyPy(c) == StartsWith(c.identifier, <<"pp">>)
IsCPython35(c) == StartsWith(c.identifier, <<"cp", "35">>)

\* variant of the PyPy pruning block: the warning is logged, the list is kept
KeepPyPy(selected, version) == selected

\* variant of the CPython 3.5 pruning block: the list is kept
KeepCPython35(configs, version) == configs

\* the list after the PyPy pruning block
MacAfterPyPy(selected, version) ==
    IF TupleGE(version, <<11, 0>>) /\ \E c \in Range(selected) : IsPyPy(c)
    THEN SelectSeq(selected, LAMBDA c : ~IsPyPy(c))
    ELSE selected

\* the list after the CPython 3.5 pruning block
MacAfterCPython35(configs, version) ==
    IF TupleGE(version, <<11, 0>>) /\ \E c \in Range(configs) : IsCPython35(c)
    THEN SelectSeq(configs, LAMBDA c : ~IsCPython35(c))
    ELSE configs

MacGetPythonConfigurations(selector, architectures, version_str) ==
    LET version == get_macos_version(version_str)
    IN  MacAfterCPython35(MacAfterPyPy(MacSelected(selector, architectures), version),
                          version)

\* the log.warning calls of get_python_configurations, in order
MacPruneWarnings(selector, architectures, version_str) ==
    LET version  == get_macos_version(version_str)
        selected == MacSelected(selector, architectures)
        afterpp  == MacAfterPyPy(selected, version)
    IN  (IF TupleGE(version, <<11, 0>>) /\ \E c \in Range(selected) : IsPyPy(c)
         THEN <<"PyPy unsupported on macOS 11">> ELSE <<>>)
        \o
        (IF TupleGE(version, <<11, 0>>) /\ \E c \in Range(afterpp) : IsCPython35(c)
         THEN <<"CPython 3.5 unsupported on macOS 11">> ELSE <<>>)

(***************************************************************************)
(* Wheel file names.  pip names the built wheel after the interpreter and  *)
(* the platform; a project without extension modules gives a wheel whose   *)
(* name ends in none-any.whl.                                              *)
(***************************************************************************)
PureWheel == <<"spam-0.1.0", "-", "py2.py3", "-", "none", "-", "any", ".whl">>

Arch(config) == config.identifier[Len(config.identifier)]

LinuxBuiltWheel(config) ==
    <<"spam-0.1.0", "-", config.path[2], "-", "linux", "_", Arch(config), ".whl">>

\* a second platform wheel that the build may leave beside the first
LinuxExtraWheel(config) ==
    <<"eggs-0.1.0", "-", config.path[2], "-", "linux", "_", Arch(config), ".whl">>

\* the projects build() is run on: one with an extension module, one without,
\* and one whose build leaves two wheels
Projects == {"platform", "pure", "two wheels"}

\* what `pip wheel` of the project may leave in /tmp/built_wheel
LinuxBuildOutputs(project_dir, config) ==
    CASE project_dir = "pure" -> {{PureWheel}}
      [] project_dir = "two wheels" -> {{LinuxBuiltWheel(config), LinuxExtraWheel(config)}}
      [] OTHER -> {{LinuxBuiltWheel(config)}}

\* bash expands a pattern in sorted order: eggs-* comes before spam-*
FirstMatch(dir) ==
    IF \E w \in dir : w[1] = "eggs-0.1.0"
    THEN {w \in dir : w[1] = "eggs-0.1.0"}
    ELSE dir

\* variant of Emptied: the directory is used as it was left
LeftAsItWas(dir) == dir

\* rm -rf of a directory followed by mkdir (shutil.rmtree on macOS)
Emptied(dir) == {}

\* auditwheel repair: linux_<arch> becomes manylinux1_<arch>
LinuxRepairedWheel(wheel) ==
    SubSeq(wheel, 1, Len(wheel) - 4) \o <<"manylinux1">> \o SubSeq(wheel, Len(wheel) - 2, Len(wheel))

\* a wheel that conforms to two manylinux standards: auditwheel leaves it
\* under a second name as well
LinuxRepairedWheel2010(wheel) ==
    SubSeq(wheel, 1, Len(wheel) - 4) \o <<"manylinux2010">>
        \o SubSeq(wheel, Len(wheel) - 2, Len(wheel))

\* the projects the Linux build() is run on: those above, and one whose wheels
\* conform to two manylinux standards
LinuxProjects == Projects \cup {"two standards"}

\* what the repair command leaves in /tmp/repaired_wheels
LinuxRepairOutputs(project_dir, wheel) ==
    IF project_dir = "two standards"
    THEN {LinuxRepairedWheel(wheel), LinuxRepairedWheel2010(wheel)}
    ELSE {LinuxRepairedWheel(wheel)}

\* variant of IsPureWheelName: no wheel is taken for a pure one
NeverPure(wheel) == FALSE

\* variant of IsPureWheelName: startswith for endswith
PureByPrefix(wheel) == StartsWith(wheel, <<"none", "-", "any", ".whl">>)

IsPureWheelName(wheel) == EndsWith(wheel, <<"none", "-", "any", ".whl">>)

(***************************************************************************)
(* linux.py build(): the driver.                                           *)
(***************************************************************************)
\* The selectors the driver is run with.  To build() the configurations differ
\* only in version, path and the suffix of the identifier, so the selectors
\* range over a sample of the catalog: the identifier that occurs twice and an
\* identifier that occurs once, on either platform.  get_python_configurations
\* itself is run on every selector under SpecEnum.
LinuxSelectable == {LinuxCatalog[i].identifier : i \in {1, 6, 7, 12}}

Selectors(identifiers) == {s \in SUBSET identifiers : Cardinality(s) <= MaxSelected}

NoWheel == <<>>

InitLinux ==
    /\ host = "linux"
    /\ options \in [project_dir : LinuxProjects,
                    build_selector : Selectors(LinuxSelectable),
                    test_command : BOOLEAN,
                    before_build : BOOLEAN,
                    repair_command : BOOLEAN,
                    dependency_constraints : BOOLEAN,
                    architectures : {{}},
                    before_all : {FALSE},
                    malformed : {"none", "before_build"}]
    \* malformed: the hook whose command has a placeholder that prepare_command
    \* does not know; it is one of the hooks that are set
    /\ options.malformed = "before_build" => options.before_build
    /\ macos_version = <<>>
    /\ machine_arch = "unknown"
    /\ pc = "docker_version"
    /\ exc = "none"
    /\ python_configurations = <<>>
    /\ warnings = <<>>
    /\ platform_index = 0
    /\ platform_configs = <<>>
    /\ config_index = 0
    /\ container_name = 0
    /\ containers = {}
    /\ docker_log = <<>>
    /\ child = "none"
    /\ returncode = 0
    /\ script_pc = "none"
    /\ built_wheel_dir = {}
    /\ repaired_wheel_dir = {}
    /\ built_wheel = NoWheel
    /\ repaired_wheel = <<>>
    /\ container_output = {}
    /\ output_dir = {}
    /\ step_log = <<>>
    /\ temp_dirs = {}
    /\ SYMLINKS_DIR = {}
    /\ testing_archs = <<>>
    /\ testing_index = 0
    /\ NoPr

\* the number, in run order, of the configuration being processed
LinuxConfigNumber ==
    config_index +
    (IF platform_index = 2
     THEN Len(PlatformConfigs(python_configurations, LinuxPlatforms[1]))
     ELSE 0)

config == IF host = "linux" THEN platform_configs[config_index]
          ELSE python_configurations[config_index]

\* variant of Interrupted: the except clause does not kill the child
LeftRunning(c) == c

\* lines 42-44: except KeyboardInterrupt: process.kill(); process.wait()
Interrupted(c) == "reaped"

\* line 36: the child of subprocess.check_call when check_call is left; on an
\* interrupt check_call kills the child and waits for it before it re-raises
CheckCallChild(r) == IF r = "interrupted" THEN "reaped" ELSE "exited"

\* print of run_docker: the command line is logged with its outcome
Docker(cmd, result) ==
    docker_log' = Append(docker_log, [cmd |-> cmd, name |-> container_name,
                                      n |-> LinuxConfigNumber, result |-> result])

\* subprocess.check_call: the child exits with zero, exits with non-zero
\* (CalledProcessError), or a KeyboardInterrupt arrives while it is awaited
DockerOutcomes == {"ok", "failed", "interrupted"}

\* variant of the except clause: the error is dropped (`pass` for `exit(1)`)
ExceptPass == "none"

\* lines 192-193: except subprocess.CalledProcessError: exit(1)
ExceptCalledProcessError == "SystemExit1"

\* variant of RaiseFrom: the container is removed in the except clause and
\* not in a finally clause, so an interrupt leaves build() at once
RaiseFromLeaving(r, next_pc) ==
    /\ pc' = (IF r = "ok" THEN next_pc ELSE IF r = "failed" THEN "finally" ELSE "left")
    /\ exc' = (CASE r = "ok" -> exc
                 [] r = "failed" -> ExceptCalledProcessError
                 [] r = "interrupted" -> "KeyboardInterrupt")

\* a command of the try body run with subprocess.check_call: CalledProcessError
\* is caught by the except clause, a KeyboardInterrupt passes it by; either way
\* the finally clause is next
RaiseFrom(r, next_pc) ==
    /\ pc' = (IF r = "ok" THEN next_pc ELSE "finally")
    /\ exc' = (CASE r = "ok" -> exc
                 [] r = "failed" -> ExceptCalledProcessError
                 [] r = "interrupted" -> "KeyboardInterrupt")

LinuxFiles == <<built_wheel_dir, repaired_wheel_dir, built_wheel, repaired_wheel,
                container_output, output_dir, step_log>>
LinuxLoop == <<python_configurations, platform_index, platform_configs, config_index>>
Unused == <<PrOnly, host, options, macos_version, machine_arch, warnings, temp_dirs, SYMLINKS_DIR,
            testing_archs, testing_index>>

\* variant of DockerVersion: the configurations are enumerated before the
\* outcome of `docker --version` is looked at
DockerVersionUnchecked ==
    /\ host = "linux" /\ pc = "docker_version"
    /\ \E r \in DockerOutcomes :
        /\ docker_log' = Append(docker_log, [cmd |-> "--version", name |-> 0, n |-> 0, result |-> r])
        /\ python_configurations' = LinuxGetPythonConfigurations(options.build_selector)
        /\ IF r = "ok"
           THEN /\ pc' = "for_platform"
                /\ exc' = exc
           ELSE /\ pc' = "left"
                /\ exc' = "SystemExit2"
    /\ UNCHANGED <<platform_index, platform_configs, config_index, container_name,
                   containers, child, returncode, script_pc, LinuxFiles, Unused>>

\* lines 50-59: docker --version, then get_python_configurations
DockerVersion ==
    /\ host = "linux" /\ pc = "docker_version"
    /\ \E r \in DockerOutcomes :
        /\ docker_log' = Append(docker_log, [cmd |-> "--version", name |-> 0, n |-> 0, result |-> r])
        /\ IF r = "ok"
           THEN /\ python_configurations' = LinuxGetPythonConfigurations(options.build_selector)
                /\ pc' = "for_platform"
                /\ exc' = exc
           ELSE /\ python_configurations' = python_configurations
                /\ pc' = "left"
                /\ exc' = "SystemExit2"
    /\ UNCHANGED <<platform_index, platform_configs, config_index, container_name,
                   containers, child, returncode, script_pc, LinuxFiles, Unused>>

\* variant of ForPlatform: a platform without configurations is not skipped
ForPlatformNoSkip ==
    /\ host = "linux" /\ pc = "for_platform"
    /\ IF platform_index = Len(LinuxPlatforms)
       THEN /\ pc' = "left"
            /\ UNCHANGED <<platform_index, platform_configs, container_name>>
       ELSE /\ platform_index' = platform_index + 1
            /\ platform_configs' =
                   PlatformConfigs(python_configurations, LinuxPlatforms[platform_index + 1])
            /\ pc' = "docker_create"
            /\ container_name' = container_name + 1
    /\ config_index' = 0
    /\ UNCHANGED <<python_configurations, exc, containers, docker_log, child, returncode,
                   script_pc, LinuxFiles, Unused>>

\* lines 65-70: the head of the loop over platforms
ForPlatform ==
    /\ host = "linux" /\ pc = "for_platform"
    /\ IF platform_index = Len(LinuxPlatforms)
       THEN /\ pc' = "left"
            /\ UNCHANGED <<platform_index, platform_configs, container_name>>
       ELSE /\ platform_index' = platform_index + 1
            /\ platform_configs' =
                   PlatformConfigs(python_configurations, LinuxPlatforms[platform_index + 1])
            /\ IF platform_configs' = <<>>
               THEN /\ pc' = "for_platform"
                    /\ container_name' = container_name
               ELSE /\ pc' = "docker_create"
                    /\ container_name' = container_name + 1
    /\ config_index' = 0
    /\ UNCHANGED <<python_configurations, exc, containers, docker_log, child, returncode,
                   script_pc, LinuxFiles, Unused>>

\* lines 72-77: docker create
DockerCreate ==
    /\ host = "linux" /\ pc = "docker_create"
    /\ \E r \in DockerOutcomes :
        /\ Docker("create", r)
        /\ child' = CheckCallChild(r)
        /\ RaiseFrom(r, "docker_cp_project")
        \* a create that did not succeed may or may not have left the container
        /\ \E made \in (IF r = "ok" THEN {TRUE} ELSE BOOLEAN) :
             containers' = (IF made THEN containers \cup {container_name} ELSE containers)
    /\ built_wheel_dir' = {}
    /\ repaired_wheel_dir' = {}
    /\ container_output' = {}
    /\ UNCHANGED <<LinuxLoop, container_name, returncode, script_pc, built_wheel,
                   repaired_wheel, output_dir, step_log, Unused>>

\* line 78: docker cp of the project
DockerCpProject ==
    /\ host = "linux" /\ pc = "docker_cp_project"
    /\ \E r \in DockerOutcomes :
        /\ Docker("cp project", r)
        /\ child' = CheckCallChild(r)
        /\ RaiseFrom(r, "for_config")
    /\ UNCHANGED <<LinuxLoop, container_name, containers, returncode, script_pc,
                   LinuxFiles, Unused>>

\* variant of ForConfig: the loop ends after the first configuration of the
\* platform
ForConfigOnce ==
    /\ host = "linux" /\ pc = "for_config"
    /\ IF config_index = Len(platform_configs) \/ config_index >= 1
       THEN /\ pc' = "docker_cp_output"
            /\ config_index' = config_index
       ELSE /\ config_index' = config_index + 1
            /\ pc' = (IF options.dependency_constraints
                      THEN "docker_cp_constraints" ELSE "docker_start")
    /\ UNCHANGED <<python_configurations, platform_index, platform_configs, exc,
                   container_name, containers, docker_log, child, returncode, script_pc,
                   LinuxFiles, Unused>>

\* line 80: the head of the loop over the platform's configurations
ForConfig ==
    /\ host = "linux" /\ pc = "for_config"
    /\ IF config_index = Len(platform_configs)
       THEN /\ pc' = "docker_cp_output"
            /\ config_index' = config_index
       ELSE /\ config_index' = config_index + 1
            /\ pc' = (IF options.dependency_constraints
                      THEN "docker_cp_constraints" ELSE "docker_start")
    /\ UNCHANGED <<python_configurations, platform_index, platform_configs, exc,
                   container_name, containers, docker_log, child, returncode, script_pc,
                   LinuxFiles, Unused>>

\* lines 81-83: docker cp of the constraints file
DockerCpConstraints ==
    /\ host = "linux" /\ pc = "docker_cp_constraints"
    /\ \E r \in DockerOutcomes :
        /\ Docker("cp constraints", r)
        /\ child' = CheckCallChild(r)
        /\ RaiseFrom(r, "docker_start")
    /\ UNCHANGED <<LinuxLoop, container_name, containers, returncode, script_pc,
                   LinuxFiles, Unused>>

\* a directory listing as a list, in the fixed order of the file system
RECURSIVE Glob(_)
Glob(dir) ==
    IF dir = {} THEN <<>>
    ELSE LET \* bash expands a pattern in sorted order: manylinux1 comes before
             \* manylinux2010
             first == CHOOSE w \in dir :
                          (\E v \in dir : "manylinux2010" \notin Range(v))
                              => "manylinux2010" \notin Range(w)
         IN  <<first>> \o Glob(dir \ {first})

Step(name, ok, arg) ==
    step_log' = Append(step_log, [n |-> IF host = "linux" THEN LinuxConfigNumber
                                        ELSE config_index,
                                  step |-> name, ok |-> ok, arg |-> arg])

LinuxDriver == <<LinuxLoop, container_name, containers, docker_log>>

\* lines 85, 38-41: Popen of `docker start`, the script is fed on stdin; a
\* container that cannot be started makes docker exit with non-zero at once
DockerStart ==
    /\ host = "linux" /\ pc = "docker_start"
    /\ \E started \in BOOLEAN :
        IF options.malformed # "none"
        THEN \* lines 171-188: the arguments of format() are evaluated first, and
             \* prepare_command raises
             /\ exc' = "TemplateError"
             /\ pc' = "finally"
             /\ UNCHANGED <<docker_log, child, returncode, script_pc>>
        ELSE IF started
        THEN /\ Docker("start", "started")
             /\ pc' = "script"
             /\ child' = "running"
             /\ script_pc' = "prepare"
             /\ UNCHANGED <<exc, returncode>>
        ELSE /\ Docker("start", "failed")
             /\ pc' = "finally"
             /\ child' = "exited"
             /\ returncode' = 1
             /\ exc' = ExceptCalledProcessError
             /\ script_pc' = script_pc
    /\ UNCHANGED <<LinuxLoop, container_name, containers, LinuxFiles, Unused>>

\* variant of ScriptGoto: the failure of the script leaves build() from the
\* except clause, without the finally clause
ScriptGotoLeaving(ok, next) ==
    IF ok
    THEN /\ script_pc' = next
         /\ IF next = "exit"
            THEN pc' = "for_config" /\ child' = "exited" /\ returncode' = 0
            ELSE UNCHANGED <<pc, child, returncode>>
         /\ exc' = exc
    ELSE /\ script_pc' = "exit"
         /\ pc' = "left" /\ child' = "exited" /\ returncode' = 1
         /\ exc' = ExceptCalledProcessError

\* variant of ScriptGoto: a command of the script that failed is run again
ScriptGotoRetry(ok, next) ==
    IF ok
    THEN /\ script_pc' = next
         /\ IF next = "exit"
            THEN pc' = "for_config" /\ child' = "exited" /\ returncode' = 0
            ELSE UNCHANGED <<pc, child, returncode>>
         /\ exc' = exc
    ELSE UNCHANGED <<script_pc, pc, child, returncode, exc>>

\* variant of AfterPrepare: the before-build hook is never run
SkipBeforeBuild == "build"

\* a command of the script: with `set -o errexit` its failure ends the script.
\* When the script ends, lines 45-46 look at the return code of `docker start`:
\* non-zero raises CalledProcessError, which the except clause turns into exit(1)
ScriptGoto(ok, next) ==
    IF ok
    THEN /\ script_pc' = next
         /\ IF next = "exit"
            THEN pc' = "for_config" /\ child' = "exited" /\ returncode' = 0
            ELSE UNCHANGED <<pc, child, returncode>>
         /\ exc' = exc
    ELSE /\ script_pc' = "exit"
         /\ pc' = "finally" /\ child' = "exited" /\ returncode' = 1
         /\ exc' = ExceptCalledProcessError

\* variant of AfterRepair: the wheel is moved to /output without being tested
MoveUntested == "move"

AfterPrepare == IF options.before_build THEN "before_build" ELSE "build"
AfterRepair == IF options.test_command THEN "test_venv" ELSE "move"

\* lines 86-99: /output, PYBIN, the environment exports, the pip and python tests
ScriptPrepare ==
    /\ pc = "script" /\ script_pc = "prepare"
    /\ \E ok \in BOOLEAN :
        /\ Step("prepare", ok, <<>>)
        /\ ScriptGoto(ok, AfterPrepare)
    /\ UNCHANGED <<LinuxDriver, built_wheel_dir, repaired_wheel_dir, built_wheel,
                   repaired_wheel, container_output, output_dir, Unused>>

\* lines 101-103: the before-build hook
ScriptBeforeBuild ==
    /\ pc = "script" /\ script_pc = "before_build"
    /\ \E ok \in BOOLEAN :
        /\ Step("before_build", ok, <<>>)
        /\ ScriptGoto(ok, "build")
    /\ UNCHANGED <<LinuxDriver, built_wheel_dir, repaired_wheel_dir, built_wheel,
                   repaired_wheel, container_output, output_dir, Unused>>

\* lines 105-109: empty built_wheel, pip wheel, glob
ScriptBuild ==
    /\ pc = "script" /\ script_pc = "build"
    /\ \E ok \in BOOLEAN :
        /\ \E out \in (IF ok THEN LinuxBuildOutputs(options.project_dir, config) ELSE {{}}) :
            /\ built_wheel_dir' = Emptied(built_wheel_dir) \cup out
            \* "$built_wheel" is the first match of the pattern
            /\ IF ok THEN \E first \in FirstMatch(built_wheel_dir') : built_wheel' = first
                     ELSE built_wheel' = built_wheel
            /\ Step("build", ok, built_wheel_dir')
        /\ ScriptGoto(ok, "repair")
    /\ UNCHANGED <<LinuxDriver, repaired_wheel_dir, repaired_wheel, container_output,
                   output_dir, Unused>>

\* lines 111-122: empty repaired_wheels, then mv or the repair command, glob
ScriptRepair ==
    /\ pc = "script" /\ script_pc = "repair"
    /\ IF IsPureWheelName(built_wheel) \/ ~options.repair_command
       THEN \* pure Python wheel or empty repair command
            /\ built_wheel_dir' = built_wheel_dir \ {built_wheel}
            /\ repaired_wheel_dir' = Emptied(repaired_wheel_dir) \cup {built_wheel}
            /\ repaired_wheel' = Glob(repaired_wheel_dir')
            /\ Step("repair_mv", TRUE, built_wheel)
            /\ ScriptGoto(TRUE, AfterRepair)
       ELSE \E ok \in BOOLEAN :
            /\ built_wheel_dir' = built_wheel_dir
            /\ repaired_wheel_dir' =
                   Emptied(repaired_wheel_dir)
                   \cup (IF ok THEN LinuxRepairOutputs(options.project_dir, built_wheel)
                         ELSE {})
            /\ repaired_wheel' = (IF ok THEN Glob(repaired_wheel_dir') ELSE repaired_wheel)
            /\ Step("repair", ok, built_wheel)
            /\ ScriptGoto(ok, AfterRepair)
    /\ UNCHANGED <<LinuxDriver, built_wheel, container_output, output_dir, Unused>>

\* lines 124-129: pip install virtualenv, mktemp, python -m virtualenv
ScriptTestVenv ==
    /\ pc = "script" /\ script_pc = "test_venv"
    /\ \E ok \in BOOLEAN :
        /\ Step("test_venv", ok, <<>>)
        /\ ScriptGoto(ok, "test_install")
    /\ UNCHANGED <<LinuxDriver, built_wheel_dir, repaired_wheel_dir, built_wheel,
                   repaired_wheel, container_output, output_dir, Unused>>

\* lines 133-149: activate, pip install of the first repaired wheel and of test_requires
ScriptTestInstall ==
    /\ pc = "script" /\ script_pc = "test_install"
    /\ \E ok \in BOOLEAN :
        /\ Step("test_install", ok, repaired_wheel[1])
        /\ ScriptGoto(ok, "test_command")
    /\ UNCHANGED <<LinuxDriver, built_wheel_dir, repaired_wheel_dir, built_wheel,
                   repaired_wheel, container_output, output_dir, Unused>>

\* lines 151-163: the test command run from $HOME, then the venv is removed
ScriptTestCommand ==
    /\ pc = "script" /\ script_pc = "test_command"
    /\ \E ok \in BOOLEAN :
        /\ Step("test_command", ok, "$HOME")
        /\ ScriptGoto(ok, "move")
    /\ UNCHANGED <<LinuxDriver, built_wheel_dir, repaired_wheel_dir, built_wheel,
                   repaired_wheel, container_output, output_dir, Unused>>

\* lines 165-169: mv of the repaired wheels to /output, chown
ScriptMove ==
    /\ pc = "script" /\ script_pc = "move"
    /\ \E ok \in BOOLEAN :
        /\ container_output' =
               (IF ok THEN container_output \cup Range(repaired_wheel) ELSE container_output)
        /\ repaired_wheel_dir' =
               (IF ok THEN repaired_wheel_dir \ Range(repaired_wheel) ELSE repaired_wheel_dir)
        /\ Step("move", ok, Range(repaired_wheel))
        /\ ScriptGoto(ok, "exit")
    /\ UNCHANGED <<LinuxDriver, built_wheel_dir, built_wheel, repaired_wheel, output_dir,
                   Unused>>

\* lines 42-46: KeyboardInterrupt during communicate: the child is killed and
\* reaped, the interrupt is dropped, and the return code of the killed child
\* raises CalledProcessError
ScriptInterrupted ==
    /\ pc = "script"
    /\ child' = Interrupted(child)
    /\ returncode' = -9
    /\ exc' = ExceptCalledProcessError
    /\ pc' = "finally"
    /\ UNCHANGED <<LinuxLoop, container_name, containers, docker_log, script_pc,
                   LinuxFiles, Unused>>

\* lines 190-191: docker cp of /output to the host output directory
DockerCpOutput ==
    /\ host = "linux" /\ pc = "docker_cp_output"
    /\ \E r \in DockerOutcomes :
        /\ Docker("cp output", r)
        /\ child' = CheckCallChild(r)
        /\ RaiseFrom(r, "finally")
        /\ output_dir' = (IF r = "ok" THEN output_dir \cup container_output ELSE output_dir)
    /\ UNCHANGED <<LinuxLoop, container_name, containers, returncode, script_pc,
                   built_wheel_dir, repaired_wheel_dir, built_wheel, repaired_wheel,
                   container_output, step_log, Unused>>

\* a KeyboardInterrupt raised in the try body between two docker commands
TryBody == {"docker_create", "docker_cp_project", "for_config", "docker_cp_constraints",
            "docker_start", "docker_cp_output"}

InterruptBetween ==
    /\ host = "linux" /\ pc \in TryBody
    /\ exc' = "KeyboardInterrupt"
    /\ pc' = "finally"
    /\ UNCHANGED <<LinuxLoop, container_name, containers, docker_log, child, returncode,
                   script_pc, LinuxFiles, Unused>>

\* variant of FinallyRm: a `docker rm` that failed is issued again
FinallyRmAgain ==
    /\ host = "linux" /\ pc = "finally"
    /\ \E ok \in BOOLEAN :
        /\ Docker("rm", IF ok THEN "ok" ELSE "failed")
        /\ child' = CheckCallChild(IF ok THEN "ok" ELSE "failed")
        /\ containers' = (IF ok THEN containers \ {container_name} ELSE containers)
        /\ built_wheel_dir' = (IF ok THEN {} ELSE built_wheel_dir)
        /\ repaired_wheel_dir' = (IF ok THEN {} ELSE repaired_wheel_dir)
        /\ container_output' = (IF ok THEN {} ELSE container_output)
        /\ exc' = exc
        /\ pc' = (IF ~ok THEN "finally" ELSE IF exc' = "none" THEN "for_platform" ELSE "left")
    /\ UNCHANGED <<LinuxLoop, container_name, returncode, script_pc, built_wheel,
                   repaired_wheel, output_dir, step_log, Unused>>

\* variant of FinallyRm: a `docker rm` that failed is passed over, and the loop
\* over platforms goes on
FinallyRmUnchecked ==
    /\ host = "linux" /\ pc = "finally"
    /\ \E ok \in BOOLEAN :
        /\ Docker("rm", IF ok THEN "ok" ELSE "failed")
        /\ child' = CheckCallChild(IF ok THEN "ok" ELSE "failed")
        /\ containers' = (IF ok THEN containers \ {container_name} ELSE containers)
        /\ built_wheel_dir' = (IF ok THEN {} ELSE built_wheel_dir)
        /\ repaired_wheel_dir' = (IF ok THEN {} ELSE repaired_wheel_dir)
        /\ container_output' = (IF ok THEN {} ELSE container_output)
        /\ exc' = exc
        /\ pc' = (IF exc' = "none" THEN "for_platform" ELSE "left")
    /\ UNCHANGED <<LinuxLoop, container_name, returncode, script_pc, built_wheel,
                   repaired_wheel, output_dir, step_log, Unused>>

\* lines 194-196: finally: docker rm --force -v; then the exception in flight, if
\* any, leaves build(), else the loop over platforms goes on
FinallyRm ==
    /\ host = "linux" /\ pc = "finally"
    /\ \E ok \in BOOLEAN :
        /\ Docker("rm", IF ok THEN "ok" ELSE "failed")
        /\ child' = CheckCallChild(IF ok THEN "ok" ELSE "failed")
        /\ containers' = (IF ok THEN containers \ {container_name} ELSE containers)
        \* -v: the files of the container go with it
        /\ built_wheel_dir' = (IF ok THEN {} ELSE built_wheel_dir)
        /\ repaired_wheel_dir' = (IF ok THEN {} ELSE repaired_wheel_dir)
        /\ container_output' = (IF ok THEN {} ELSE container_output)
        /\ exc' = (IF ok THEN exc ELSE "CalledProcessError")
        /\ pc' = (IF exc' = "none" THEN "for_platform" ELSE "left")
    /\ UNCHANGED <<LinuxLoop, container_name, returncode, script_pc, built_wheel,
                   repaired_wheel, output_dir, step_log, Unused>>

NextLinux ==
    \/ DockerVersion
    \/ ForPlatform
    \/ DockerCreate
    \/ DockerCpProject
    \/ ForConfig
    \/ DockerCpConstraints
    \/ DockerStart
    \/ ScriptPrepare
    \/ ScriptBeforeBuild
    \/ ScriptBuild
    \/ ScriptRepair
    \/ ScriptTestVenv
    \/ ScriptTestInstall
    \/ ScriptTestCommand
    \/ ScriptMove
    \/ ScriptInterrupted
    \/ DockerCpOutput
    \/ InterruptBetween
    \/ FinallyRm

SpecLinux == InitLinux /\ [][NextLinux]_vars

(***************************************************************************)
(* macos.py build(): the driver.                                           *)
(***************************************************************************)
MacBuiltWheel(c) ==
    <<"spam-0.1.0", "-", c.identifier[1] \o c.identifier[2], "-", "macosx_10_9", "_",
      Arch(c), ".whl">>

\* what `pip wheel` may leave in built_wheel
MacExtraWheel(c) ==
    <<"eggs-0.1.0", "-", c.identifier[1] \o c.identifier[2], "-", "macosx_10_9", "_",
      Arch(c), ".whl">>

MacBuildOutputs(project_dir, c) ==
    CASE project_dir = "pure" -> {{PureWheel}}
      [] project_dir = "two wheels" -> {{MacBuiltWheel(c), MacExtraWheel(c)}}
      [] OTHER -> {{MacBuiltWheel(c)}}

\* Path.stem: the name without its last suffix
Stem(wheel) == SubSeq(wheel, 1, Len(wheel) - 1)

\* variant of MacRenamed: the wheel keeps its name
NotRenamed(wheel) == wheel

\* lines 323-331: the name of the repaired wheel after the universal2 rename
MacRenamed(wheel) ==
    IF EndsWith(Stem(wheel), <<"_", "universal2">>)
    THEN Stem(wheel) \o <<".", "macosx_11_0", "_", "universal2", ".whl">>
    ELSE wheel

\* variant of MacTestingArchs: a wheel is tested on the host's architecture only
MacTestingArchsNative(machine, c) ==
    IF machine \in {"x86_64", "arm64"} THEN <<machine>> ELSE <<>>

\* lines 335-364
MacTestingArchs(machine, c) ==
    IF machine = "x86_64"
    THEN IF EndsWith(c.identifier, <<"_", "arm64">>) THEN <<>>
         ELSE IF EndsWith(c.identifier, <<"_", "universal2">>) THEN <<"x86_64">>
         ELSE <<"x86_64">>
    ELSE IF machine = "arm64"
    THEN IF EndsWith(c.identifier, <<"_", "x86_64">>) THEN <<"x86_64">>
         ELSE IF EndsWith(c.identifier, <<"_", "universal2">>) THEN <<"arm64", "x86_64">>
         ELSE <<"arm64">>
    ELSE <<>>

\* variant of MacArchPrefix: no emulation is known
MacArchPrefixNative(machine, testing_arch) ==
    IF testing_arch = machine THEN <<>> ELSE <<"RuntimeError">>

\* lines 375-381: the prefix of the commands of a test run, or the error
MacArchPrefix(machine, testing_arch) ==
    IF testing_arch = machine THEN <<>>
    ELSE IF machine = "arm64" /\ testing_arch = "x86_64" THEN <<"arch", "-x86_64">>
    ELSE <<"RuntimeError">>

\* lines 115-162: where the interpreter of a configuration is installed
InstallationBinPath(c) ==
    IF StartsWith(c.identifier, <<"cp">>)
    THEN <<"/Library/Frameworks/Python.framework/Versions/", c.version, "/bin">>
    ELSE <<"/tmp/", c.url, "/bin">>

PythonExecutable(c) ==
    IF StartsWith(c.identifier, <<"cp">>)
    THEN (IF c.version[1] = "3" THEN "python3" ELSE "python")
    ELSE (IF c.version[1] = "3" THEN "pypy3" ELSE "pypy")

PipExecutable(c) == IF c.version[1] = "3" THEN "pip3" ELSE "pip"

\* lines 110-112: the three links to the interpreter of a configuration
Links(c) ==
    {[name |-> "python", target |-> <<InstallationBinPath(c), PythonExecutable(c)>>],
     [name |-> "python-config",
      target |-> <<InstallationBinPath(c), PythonExecutable(c), "-config">>],
     [name |-> "pip", target |-> <<InstallationBinPath(c), PipExecutable(c)>>]}

\* /tmp/cibw_bin outlives a run: what an earlier run on the same machine, of a
\* configuration that this run does not build, has left there
StaleLinks == Links(MacCatalog[3])

\* variant of make_symlinks: a directory that is there is used as it is
MakeSymlinksOnce(dir, c) == IF dir # {} THEN dir ELSE Links(c)

\* lines 100-112: the directory is removed if it is there, made again, and the
\* three links are put in it
make_symlinks(dir, c) == Emptied(dir) \cup Links(c)

AllowedArchs == {"x86_64", "universal2", "arm64"}

\* lines 241-246: the test that raises 'Invalid archs option'
InvalidArchs(architectures) == architectures \subseteq AllowedArchs

\* The driver is run on a sample of the catalog (see LinuxSelectable): a
\* CPython 2 and the pruned CPython 3.5, the three architectures of CPython 3.9,
\* and a PyPy.
MacSelectable == {MacCatalog[i].identifier : i \in {1, 2, 6, 7, 8, 9}}

\* the values of options.architectures the driver is run with; i686 is a
\* member of Architecture that macOS does not support
MacArchitectureSets ==
    {{"x86_64"}, {"x86_64", "universal2", "arm64"},
     {"i686", "x86_64"}, {"i686", "x86_64", "universal2", "arm64"}}

\* the values of platform.mac_ver() get_python_configurations is run with
MacVersions == {<<10, 15, 7>>, <<10, 16>>, <<11>>, <<11, 0, 1>>, <<11, 2>>, <<12, 0, 1>>}
\* the versions of the hosts build() is run on: one before and one after (11, 0)
MacHostVersions == {<<10, 15, 7>>, <<11, 0, 1>>}
MachineArchs == {"x86_64", "arm64"}

InitMac ==
    /\ host = "macos"
    /\ options \in [project_dir : Projects,
                    build_selector : Selectors(MacSelectable),
                    test_command : BOOLEAN,
                    before_build : BOOLEAN,
                    repair_command : BOOLEAN,
                    dependency_constraints : {FALSE},
                    architectures : MacArchitectureSets,
                    before_all : BOOLEAN,
                    malformed : {"none", "before_all", "before_build"}]
    /\ options.malformed = "before_all" => options.before_all
    /\ options.malformed = "before_build" => options.before_build
    /\ macos_version = <<>>
    /\ machine_arch = "unknown"
    /\ pc = "archs"
    /\ exc = "none"
    /\ python_configurations = <<>>
    /\ warnings = <<>>
    /\ platform_index = 0
    /\ platform_configs = <<>>
    /\ config_index = 0
    /\ container_name = 0
    /\ containers = {}
    /\ docker_log = <<>>
    /\ child = "none"
    /\ returncode = 0
    /\ script_pc = "none"
    /\ built_wheel_dir = {}
    /\ repaired_wheel_dir = {}
    /\ built_wheel = NoWheel
    /\ repaired_wheel = <<>>
    /\ container_output = {}
    /\ output_dir = {}
    /\ step_log = <<>>
    /\ temp_dirs = {}
    /\ SYMLINKS_DIR \in {{}, StaleLinks}
    /\ testing_archs = <<>>
    /\ testing_index = 0
    /\ NoPr

LinuxOnly == <<platform_index, platform_configs, container_name, containers, docker_log,
               child, returncode, script_pc, container_output>>
MacInputs == <<PrOnly, host, options>>
MacWheels == <<built_wheel_dir, repaired_wheel_dir, built_wheel, repaired_wheel>>
MacTesting == <<testing_archs, testing_index>>

\* lines 431-433: except subprocess.CalledProcessError: ... exit(1)
MacExcept == "SystemExit1"

\* a command run with call(): it returns, or raises CalledProcessError
MacCall(ok, next_pc) ==
    /\ pc' = (IF ok THEN next_pc ELSE "left")
    /\ exc' = (IF ok THEN exc ELSE MacExcept)

\* lines 241-250: the architectures are checked, then the temporary directory is made
MacCheckArchs ==
    /\ host = "macos" /\ pc = "archs"
    /\ IF InvalidArchs(options.architectures)
       THEN /\ exc' = "ValueError"
            /\ pc' = "left"
            /\ temp_dirs' = temp_dirs
       ELSE /\ exc' = exc
            /\ pc' = (IF options.before_all THEN "before_all" ELSE "get_python_configurations")
            /\ temp_dirs' = temp_dirs \cup {"temp_dir"}
    /\ UNCHANGED <<MacInputs, macos_version, machine_arch, python_configurations, warnings,
                   config_index, MacWheels, output_dir, step_log, SYMLINKS_DIR, MacTesting,
                   LinuxOnly>>

\* lines 253-257: the before_all hook
MacBeforeAll ==
    /\ host = "macos" /\ pc = "before_all"
    /\ IF options.malformed = "before_all"
       THEN exc' = "TemplateError" /\ pc' = "left"   \* line 256: prepare_command raises
       ELSE \E ok \in BOOLEAN : MacCall(ok, "get_python_configurations")
    /\ UNCHANGED <<MacInputs, macos_version, machine_arch, python_configurations, warnings,
                   config_index, MacWheels, output_dir, step_log, temp_dirs, SYMLINKS_DIR,
                   MacTesting, LinuxOnly>>

\* line 259: get_python_configurations, which asks the host for its version
MacGetConfigurations ==
    /\ host = "macos" /\ pc = "get_python_configurations"
    /\ \E version_str \in MacHostVersions :
        /\ macos_version' = version_str
        /\ python_configurations' =
               MacGetPythonConfigurations(options.build_selector, options.architectures,
                                          version_str)
        /\ warnings' = warnings \o MacPruneWarnings(options.build_selector,
                                                    options.architectures, version_str)
    /\ pc' = "for_config"
    /\ UNCHANGED <<MacInputs, machine_arch, exc, config_index, MacWheels, output_dir,
                   step_log, temp_dirs, SYMLINKS_DIR, MacTesting, LinuxOnly>>

\* lines 261-262: the head of the loop over the configurations
MacForConfig ==
    /\ host = "macos" /\ pc = "for_config"
    /\ IF config_index = Len(python_configurations)
       THEN pc' = "left" /\ config_index' = config_index
       ELSE pc' = "setup_python" /\ config_index' = config_index + 1
    /\ UNCHANGED <<MacInputs, macos_version, machine_arch, exc, python_configurations,
                   warnings, MacWheels, output_dir, step_log, temp_dirs, SYMLINKS_DIR,
                   MacTesting, LinuxOnly>>

\* lines 165-237, 270: setup_python.  The installation may fail before the links
\* are made; a later command may fail, or python or pip on PATH may not be the
\* driver's, which exits with 1
MacSetupPython ==
    /\ host = "macos" /\ pc = "setup_python"
    /\ \E result \in {"install failed", "failed", "ok"} :
        /\ SYMLINKS_DIR' = (IF result = "install failed" THEN SYMLINKS_DIR
                            ELSE make_symlinks(SYMLINKS_DIR, config))
        /\ Step("prepare", result = "ok", <<>>)
        /\ MacCall(result = "ok", IF options.before_build THEN "before_build" ELSE "build")
    /\ UNCHANGED <<MacInputs, macos_version, machine_arch, python_configurations, warnings,
                   config_index, MacWheels, output_dir, temp_dirs, MacTesting, LinuxOnly>>

\* lines 272-275: the before_build hook
MacBeforeBuild ==
    /\ host = "macos" /\ pc = "before_build"
    /\ IF options.malformed = "before_build"
       THEN \* line 274: prepare_command raises
            exc' = "TemplateError" /\ pc' = "left" /\ step_log' = step_log
       ELSE \E ok \in BOOLEAN :
            /\ Step("before_build", ok, <<>>)
            /\ MacCall(ok, "build")
    /\ UNCHANGED <<MacInputs, macos_version, machine_arch, python_configurations, warnings,
                   config_index, MacWheels, output_dir, temp_dirs, SYMLINKS_DIR, MacTesting,
                   LinuxOnly>>

\* lines 277-299: built_wheel is emptied, pip wheel runs, the built wheel is
\* picked, repaired_wheel is emptied, and a pure wheel raises NonPlatformWheelError
MacBuild ==
    /\ host = "macos" /\ pc = "build"
    /\ \E ok \in BOOLEAN :
        /\ \E out \in (IF ok THEN MacBuildOutputs(options.project_dir, config) ELSE {{}}) :
            /\ built_wheel_dir' = Emptied(built_wheel_dir) \cup out
            /\ Step("build", ok, built_wheel_dir')
            /\ IF ok
               THEN \* next() of the glob: the first match, in the order of the file system
                    /\ \E first \in built_wheel_dir' : built_wheel' = first
                    /\ repaired_wheel_dir' = Emptied(repaired_wheel_dir)
                    /\ IF IsPureWheelName(built_wheel')
                       THEN exc' = "NonPlatformWheelError" /\ pc' = "left"
                       ELSE exc' = exc /\ pc' = "repair"
               ELSE /\ built_wheel' = built_wheel
                    /\ repaired_wheel_dir' = repaired_wheel_dir
                    /\ MacCall(FALSE, "repair")
    /\ UNCHANGED <<MacInputs, macos_version, machine_arch, python_configurations, warnings,
                   config_index, repaired_wheel, output_dir, temp_dirs, SYMLINKS_DIR,
                   MacTesting, LinuxOnly>>

\* lines 301-364: the repair command or the move, the repaired wheel is picked
\* and renamed, and the architectures to test on are computed
MacRepair ==
    /\ host = "macos" /\ pc = "repair"
    /\ \E machine \in (IF machine_arch = "unknown" THEN MachineArchs ELSE {machine_arch}) :
       \E ok \in (IF options.repair_command THEN BOOLEAN ELSE {TRUE}) :
        /\ Step(IF options.repair_command THEN "repair" ELSE "repair_mv", ok, built_wheel)
        /\ IF ok
           THEN /\ built_wheel_dir' = (IF options.repair_command THEN built_wheel_dir
                                       ELSE built_wheel_dir \ {built_wheel})
                \* next() of the glob, then the rename
                /\ \E first \in repaired_wheel_dir \cup {built_wheel} :
                    /\ repaired_wheel' = <<MacRenamed(first)>>
                    /\ repaired_wheel_dir' =
                           ((repaired_wheel_dir \cup {built_wheel}) \ {first})
                           \cup {MacRenamed(first)}
                /\ machine_arch' = machine
                /\ testing_archs' = MacTestingArchs(machine, config)
                /\ testing_index' = (IF options.test_command /\ Len(testing_archs') > 0
                                     THEN 1 ELSE 0)
                /\ MacCall(TRUE, IF testing_index' = 1 THEN "test_venv" ELSE "move")
           ELSE /\ UNCHANGED <<built_wheel_dir, repaired_wheel_dir, repaired_wheel,
                               machine_arch, MacTesting>>
                /\ MacCall(FALSE, "move")
    /\ UNCHANGED <<MacInputs, macos_version, python_configurations, warnings, config_index,
                   built_wheel, output_dir, temp_dirs, SYMLINKS_DIR, LinuxOnly>>

venv_dir == <<"venv_dir", config_index, testing_index>>

\* variant of MacTestCwd: the test command is run in the project directory
ProjectCwd == "."

\* line 423: cwd=os.environ['HOME']
MacTestCwd == "$HOME"

\* lines 368-406: virtualenv is installed, the directory of the virtual
\* environment is made, the environment is created and checked, before_test runs
MacTestVenv ==
    /\ host = "macos" /\ pc = "test_venv"
    /\ \E result \in {"pip failed", "failed", "ok"} :
        /\ temp_dirs' = (IF result = "pip failed" THEN temp_dirs
                         ELSE temp_dirs \cup {venv_dir})
        /\ IF result # "pip failed"
              /\ MacArchPrefix(machine_arch, testing_archs[testing_index]) = <<"RuntimeError">>
           THEN /\ exc' = "RuntimeError" /\ pc' = "left"
                /\ step_log' = step_log
           ELSE /\ Step("test_venv", result = "ok",
                        <<testing_archs[testing_index],
                          MacArchPrefix(machine_arch, testing_archs[testing_index])>>)
                /\ MacCall(result = "ok", "test_install")
    /\ UNCHANGED <<MacInputs, macos_version, machine_arch, python_configurations, warnings,
                   config_index, MacWheels, output_dir, SYMLINKS_DIR, MacTesting, LinuxOnly>>

\* lines 408-413: pip install of the repaired wheel and of test_requires
MacTestInstall ==
    /\ host = "macos" /\ pc = "test_install"
    /\ \E ok \in BOOLEAN :
        /\ Step("test_install", ok, repaired_wheel[1])
        /\ MacCall(ok, "test_command")
    /\ UNCHANGED <<MacInputs, macos_version, machine_arch, python_configurations, warnings,
                   config_index, MacWheels, output_dir, temp_dirs, SYMLINKS_DIR, MacTesting,
                   LinuxOnly>>

\* lines 415-426: the test command run from $HOME, then the virtual environment
\* is removed and the loop over testing_archs goes on
MacTestCommand ==
    /\ host = "macos" /\ pc = "test_command"
    /\ \E ok \in BOOLEAN :
        /\ Step("test_command", ok, MacTestCwd)
        /\ temp_dirs' = (IF ok THEN temp_dirs \ {venv_dir} ELSE temp_dirs)
        /\ testing_index' = (IF ok /\ testing_index < Len(testing_archs)
                             THEN testing_index + 1 ELSE testing_index)
        /\ MacCall(ok, IF testing_index < Len(testing_archs) THEN "test_venv" ELSE "move")
    /\ UNCHANGED <<MacInputs, macos_version, machine_arch, python_configurations, warnings,
                   config_index, MacWheels, output_dir, SYMLINKS_DIR, testing_archs,
                   LinuxOnly>>

\* lines 428-430: the repaired wheel is moved to the output directory
MacMove ==
    /\ host = "macos" /\ pc = "move"
    /\ output_dir' = output_dir \cup {repaired_wheel[1]}
    /\ repaired_wheel_dir' = repaired_wheel_dir \ {repaired_wheel[1]}
    /\ Step("move", TRUE, {repaired_wheel[1]})
    /\ pc' = "for_config"
    /\ UNCHANGED <<MacInputs, macos_version, machine_arch, exc, python_configurations,
                   warnings, config_index, built_wheel_dir, built_wheel, repaired_wheel,
                   temp_dirs, SYMLINKS_DIR, MacTesting, LinuxOnly>>

NextMac ==
    \/ MacCheckArchs
    \/ MacBeforeAll
    \/ MacGetConfigurations
    \/ MacForConfig
    \/ MacSetupPython
    \/ MacBeforeBuild
    \/ MacBuild
    \/ MacRepair
    \/ MacTestVenv
    \/ MacTestInstall
    \/ MacTestCommand
    \/ MacMove

SpecMac == InitMac /\ [][NextMac]_vars

(***************************************************************************)
(* get_python_configurations of either driver, called on its own with      *)
(* every selector, every set of architectures and every host version.      *)
(***************************************************************************)
Identifiers(catalog) == {c.identifier : c \in Range(catalog)}

Architectures == {"x86_64", "universal2", "arm64", "i686"}

InitEnum ==
    /\ host \in {"linux", "macos"}
    /\ options \in [build_selector : SUBSET Identifiers(IF host = "linux" THEN LinuxCatalog
                                                        ELSE MacCatalog),
                    architectures : IF host = "linux" THEN {{}} ELSE SUBSET Architectures]
    /\ macos_version \in (IF host = "linux" THEN {<<>>} ELSE MacVersions)
    /\ machine_arch = "unknown"
    /\ pc = "enumerate"
    /\ exc = "none"
    /\ python_configurations = <<>>
    /\ warnings = <<>>
    /\ platform_index = 0
    /\ platform_configs = <<>>
    /\ config_index = 0
    /\ container_name = 0
    /\ containers = {}
    /\ docker_log = <<>>
    /\ child = "none"
    /\ returncode = 0
    /\ script_pc = "none"
    /\ built_wheel_dir = {}
    /\ repaired_wheel_dir = {}
    /\ built_wheel = NoWheel
    /\ repaired_wheel = <<>>
    /\ container_output = {}
    /\ output_dir = {}
    /\ step_log = <<>>
    /\ temp_dirs = {}
    /\ SYMLINKS_DIR = {}
    /\ testing_archs = <<>>
    /\ testing_index = 0
    /\ NoPr

EnumFrame == <<PrOnly, host, options, macos_version, machine_arch, exc, platform_index,
               config_index, container_name, containers, docker_log, child, returncode,
               script_pc, built_wheel_dir, repaired_wheel_dir, built_wheel, repaired_wheel,
               container_output, output_dir, step_log, temp_dirs, SYMLINKS_DIR,
               testing_archs, testing_index>>

\* linux.py lines 12-30, called once
EnumLinux ==
    /\ host = "linux" /\ pc = "enumerate"
    /\ python_configurations' = LinuxGetPythonConfigurations(options.build_selector)
    /\ pc' = "enumerated"
    /\ UNCHANGED <<EnumFrame, warnings, platform_configs>>

\* macos.py lines 49-94, called once
EnumMac ==
    /\ host = "macos" /\ pc = "enumerate"
    /\ python_configurations' =
           MacGetPythonConfigurations(options.build_selector, options.architectures,
                                      macos_version)
    /\ warnings' = warnings \o MacPruneWarnings(options.build_selector,
                                                options.architectures, macos_version)
    /\ pc' = "enumerated"
    /\ UNCHANGED <<EnumFrame, platform_configs>>

\* a second call with the same arguments on the same host; its result is kept
\* in platform_configs
EnumAgain ==
    /\ pc = "enumerated"
    /\ platform_configs' =
           (IF host = "linux" THEN LinuxGetPythonConfigurations(options.build_selector)
            ELSE MacGetPythonConfigurations(options.build_selector, options.architectures,
                                            macos_version))
    /\ pc' = "enumerated twice"
    /\ UNCHANGED <<EnumFrame, python_configurations, warnings>>

NextEnum == EnumLinux \/ EnumMac \/ EnumAgain

SpecEnum == InitEnum /\ [][NextEnum]_vars

\* both drivers
InitBuild == InitLinux \/ InitMac

NextBuild == NextLinux \/ NextMac

SpecBuild == InitBuild /\ [][NextBuild]_vars

\* the macOS driver, and get_python_configurations on its own
InitMacEnum == InitMac \/ InitEnum

NextMacEnum == NextMac \/ NextEnum

SpecMacEnum == InitMacEnum /\ [][NextMacEnum]_vars

(***************************************************************************)
(* Shell text.  A text is a sequence of tokens: the characters the shell    *)
(* gives a meaning to are tokens of their own, and any other token stands   *)
(* for text without such characters.                                       *)
(***************************************************************************)
\* the names of shell variables that a user value may refer to
NameTokens == {"A", "B", "PATH"}

\* the state of the shell's reader: the quoting mode, whether the next character
\* was read already, the word being read,
\* whether a word is being read, the words of the command so far, the commands
LexStart == [mode |-> "plain", skip |-> FALSE, word |-> <<>>, inword |-> FALSE,
             words |-> <<>>, cmds |-> <<>>]

LexAdd(st, tokens) == [st EXCEPT !.word = st.word \o tokens, !.inword = TRUE]

LexEndWord(st) ==
    IF st.inword
    THEN [st EXCEPT !.words = Append(st.words, st.word), !.word = <<>>, !.inword = FALSE]
    ELSE st

LexEndCommand(st) ==
    LET w == LexEndWord(st)
    IN  IF w.words = <<>> THEN w
        ELSE [w EXCEPT !.cmds = Append(w.cmds, w.words), !.words = <<>>]

\* $NAME: the value of the variable, nothing when it is not set
Expand(env, name) == IF name \in DOMAIN env THEN env[name] ELSE <<>>

\* The shell reads a text: unquoted blanks end a word, an unquoted ; or newline
\* ends a command, '...' keeps everything, "..." keeps everything but $NAME and
\* the backslash before $ " \ and newline, an unquoted backslash keeps the next
\* character, $NAME is replaced by the variable's value.  LexStep reads the
\* character at i; a character read together with the one before it is skipped.
LexStep(text, i, st, env) ==
    LET c == text[i]
        more == i < Len(text)
        Both(next) == [next EXCEPT !.skip = TRUE]
    IN  IF st.skip THEN [st EXCEPT !.skip = FALSE]
        ELSE CASE st.mode = "single" ->
                    IF c = "'" THEN [st EXCEPT !.mode = "plain"]
                    ELSE LexAdd(st, <<c>>)
               [] st.mode = "double" ->
                    IF c = "\""
                    THEN [st EXCEPT !.mode = "plain"]
                    ELSE IF c = "\\" /\ more /\ text[i + 1] \in {"$", "\"", "\\"}
                    THEN Both(LexAdd(st, <<text[i + 1]>>))
                    ELSE IF c = "\\" /\ more /\ text[i + 1] = "\n"
                    THEN Both(st)
                    ELSE IF c = "$" /\ more /\ text[i + 1] \in NameTokens
                    THEN Both(LexAdd(st, Expand(env, text[i + 1])))
                    ELSE LexAdd(st, <<c>>)
               [] OTHER ->
                    IF c = " " THEN LexEndWord(st)
                    ELSE IF c \in {";", "\n"} THEN LexEndCommand(st)
                    ELSE IF c = "'"
                    THEN [st EXCEPT !.mode = "single", !.inword = TRUE]
                    ELSE IF c = "\""
                    THEN [st EXCEPT !.mode = "double", !.inword = TRUE]
                    ELSE IF c = "\\" /\ more /\ text[i + 1] = "\n"
                    THEN Both(st)
                    ELSE IF c = "\\" /\ more
                    THEN Both(LexAdd(st, <<text[i + 1]>>))
                    ELSE IF c = "$" /\ more /\ text[i + 1] \in NameTokens
                    THEN Both(LexAdd(st, Expand(env, text[i + 1])))
                    ELSE LexAdd(st, <<c>>)

\* the reader's state after the characters lo..hi: the first half is read, then
\* the second from the state the first left
RECURSIVE Lex(_, _, _, _, _)
Lex(text, lo, hi, st, env) ==
    IF lo > hi THEN st
    ELSE IF lo = hi THEN LexStep(text, lo, st, env)
    ELSE LET mid == (lo + hi) \div 2
             half == Lex(text, lo, mid, st, env)
         IN  IF half.skip /\ mid = hi THEN half ELSE Lex(text, mid + 1, hi, half, env)

\* The result of reading a text is the list of commands, each a list of words,
\* and whether the text ended inside a quotation.
ShellCommands(text, env) ==
    LET end == Lex(text, 1, Len(text), LexStart, env)
    IN  [cmds |-> LexEndCommand(end).cmds, error |-> end.mode # "plain"]

\* shlex.quote (pipes.quote): '' for the empty string, the string itself when
\* it has only safe characters, else the string between single quotes with
\* every single quote written as '"'"'
UnsafeTokens == {" ", "'", "\"", ";", "\n", "$", "\\"}

RECURSIVE ReplaceToken(_, _, _)
ReplaceToken(s, token, by) ==
    IF s = <<>> THEN <<>>
    ELSE (IF Head(s) = token THEN by ELSE <<Head(s)>>) \o ReplaceToken(Tail(s), token, by)

shlex_quote(s) ==
    IF s = <<>> THEN <<"'", "'">>
    ELSE IF Range(s) \cap UnsafeTokens = {} THEN s
    ELSE <<"'">> \o ReplaceToken(s, "'", <<"'", "\"", "'", "\"", "'">>) \o <<"'">>

(***************************************************************************)
(* linux.py build(): the text of the script of a configuration and the     *)
(* command lines of the docker commands.                                   *)
(***************************************************************************)
\* bound: the number of tokens of the user value that is varied
MaxValueLen == 2

\* the tokens a user value is made of
ValueTokens == {"a", " ", "'", "\"", ";", "$", "A", "\\", "{project}"}

RECURSIVE Texts(_)
Texts(n) ==
    IF n = 0 THEN {<<>>}
    ELSE Texts(n - 1) \cup {Append(t, c) : t \in Texts(n - 1), c \in ValueTokens}

\* docker_container_test.py line 56: the length of a long value, and the token
\* that stands for a value of that length
long_env_var_length == 127 * 1024

Big == "0 * long_env_var_length"

TokenLen(token) == IF token = Big THEN long_env_var_length ELSE 1

RECURSIVE StrLen(_)
StrLen(text) == IF text = <<>> THEN 0 ELSE TokenLen(Head(text)) + StrLen(Tail(text))

\* the longest string the kernel takes as one argument of a command line
MaxArgStrlen == 128 * 1024

\* exec of a command line
ExecOutcome(argv) ==
    IF \E k \in DOMAIN argv : StrLen(argv[k]) >= MaxArgStrlen THEN "E2BIG" ELSE "ok"

\* the values of the environment option the script is composed with
Assignment(name, value) == [name |-> name, value |-> value]

Environments ==
    { <<>>,
      <<Assignment("a", <<Big>>)>>,
      <<Assignment("a", <<Big>>), Assignment("b", <<Big>>),
        Assignment("c", <<Big>>), Assignment("d", <<Big>>)>> }

\* environment.as_shell_commands(): one export command for each assignment
as_shell_commands(environment) ==
    [i \in DOMAIN environment |->
        <<"export", " ", environment[i].name, "=">> \o environment[i].value]

\* str.join
RECURSIVE Join(_, _)
Join(sep, texts) ==
    IF texts = <<>> THEN <<>>
    ELSE IF Len(texts) = 1 THEN texts[1]
    ELSE texts[1] \o sep \o Join(sep, Tail(texts))

\* prepare_command: the placeholders of a hook command are filled in; fills
\* gives the text of each placeholder of the call
prepare_command(command, fills) ==
    Join(<<>>, [i \in DOMAIN command |->
                  IF command[i] \in DOMAIN fills THEN fills[command[i]] ELSE <<command[i]>>])

\* lines 175, 178: project='/project'
ProjectFills == [p \in {"{project}"} |-> <<"/project">>]

\* line 182: wheel='"$1"', dest_dir='/tmp/repaired_wheels'
RepairFills ==
    [p \in {"{wheel}", "{dest_dir}"} |->
        IF p = "{wheel}" THEN <<"\"", "$1", "\"">> ELSE <<"/tmp/repaired_wheels">>]

\* a line of the script that the code writes word by word
Line(words) == Join(<<" ">>, [i \in DOMAIN words |-> <<words[i]>>])

\* lines 85-188: the script fed to `docker start`, after format().  Comments and
\* blank lines are left out; a command substitution between backquotes is
\* written $(...)
Script(opts, c) ==
    LET test_command == shlex_quote(IF opts.test_command # <<>>
                                    THEN prepare_command(opts.test_command, ProjectFills)
                                    ELSE <<>>)
        before_build == shlex_quote(IF opts.before_build # <<>>
                                    THEN prepare_command(opts.before_build, ProjectFills)
                                    ELSE <<>>)
        repair_command == shlex_quote(IF opts.repair_command # <<>>
                                      THEN prepare_command(opts.repair_command, RepairFills)
                                      ELSE <<>>)
        test_requires == Join(<<" ">>, opts.test_requires)
        environment_exports == Join(<<"\n">>, as_shell_commands(opts.environment))
    IN  Join(<<"\n">>, <<
          Line(<<"set", "-o", "errexit">>),
          Line(<<"set", "-o", "xtrace">>),
          Line(<<"mkdir", "-p", "/output">>),
          Line(<<"cd", "/project">>),
          <<"PYBIN=", "\"">> \o c.path \o <<"/bin", "\"">>,
          <<"export", " ", "PATH=", "\"", "$PYBIN:$PATH", "\"">>,
          environment_exports,
          <<"test", " ", "\"", "$(which pip)", "\"", " ", "=", " ", "\"", "$PYBIN/pip", "\"">>,
          <<"test", " ", "\"", "$(which python)", "\"", " ", "=", " ",
            "\"", "$PYBIN/python", "\"">>,
          Line(<<"if", "[", "!", "-z">>) \o <<" ">> \o before_build \o <<" ", "]", ";", " ", "then">>,
          Line(<<"sh", "-c">>) \o <<" ">> \o before_build,
          <<"fi">>,
          Line(<<"rm", "-rf", "/tmp/built_wheel">>),
          Line(<<"mkdir", "/tmp/built_wheel">>),
          Line(<<"pip", "wheel", ".", "-w", "/tmp/built_wheel", "--no-deps">>) \o <<" ">>,
          <<"built_wheel=(/tmp/built_wheel/*.whl)">>,
          Line(<<"rm", "-rf", "/tmp/repaired_wheels">>),
          Line(<<"mkdir", "/tmp/repaired_wheels">>),
          <<"if", " ", "[[", " ", "\"", "$built_wheel", "\"", " ", "==", " ", "*none-any.whl",
            " ", "]]", " ", "||", " ", "[", " ", "-z", " ">> \o repair_command
              \o <<" ", "]", ";", " ", "then">>,
          <<"mv", " ", "\"", "$built_wheel", "\"", " ", "/tmp/repaired_wheels">>,
          <<"else">>,
          Line(<<"sh", "-c">>) \o <<" ">> \o repair_command
              \o <<" ", "repair_command", " ", "\"", "$built_wheel", "\"">>,
          <<"fi">>,
          <<"repaired_wheels=(/tmp/repaired_wheels/*.whl)">>,
          Line(<<"if", "[", "!", "-z">>) \o <<" ">> \o test_command \o <<" ", "]", ";", " ", "then">>,
          Line(<<"pip", "install">>) \o <<" ">>
              \o (IF opts.dependency_constraints THEN Line(<<"-c", "/constraints.txt">>) ELSE <<>>)
              \o <<" ", "virtualenv">>,
          <<"venv_dir=$(mktemp -d)/venv">>,
          <<"python", " ", "-m", " ", "virtualenv", " ", "\"", "$venv_dir", "\"">>,
          <<"(">>,
          <<"source", " ", "\"", "$venv_dir/bin/activate", "\"">>,
          <<"echo", " ", "\"", "Running tests using $(which python)", "\"">>,
          <<"pip", " ", "install", " ", "\"", "${repaired_wheels[0]}", "\"">> \o opts.test_extras,
          <<"if", " ", "[", " ", "!", " ", "-z", " ", "\"">> \o test_requires
              \o <<"\"", " ", "]", ";", " ", "then">>,
          Line(<<"pip", "install">>) \o <<" ">> \o test_requires,
          <<"fi">>,
          Line(<<"pushd", "$HOME">>),
          Line(<<"sh", "-c">>) \o <<" ">> \o test_command,
          <<"popd">>,
          <<")">>,
          <<"if", " ", "[", " ", "$?", " ", "-ne", " ", "0", " ", "]", ";", " ", "then">>,
          <<"exit", " ", "1", ";">>,
          <<"fi">>,
          <<"rm", " ", "-rf", " ", "\"", "$venv_dir", "\"">>,
          <<"fi">>,
          <<"mv", " ", "\"", "${repaired_wheels[@]}", "\"", " ", "/output">>,
          <<"for", " ", "repaired_wheel", " ", "in", " ", "\"", "${repaired_wheels[@]}", "\"",
            ";", " ", "do">>,
          <<"chown", " ", "uid:gid", " ", "\"", "/output/$(basename ", "\"", "$repaired_wheel",
            "\"", ")", "\"">>,
          <<"done">> >>)

\* the same, with the environment handed to `docker create` as --env NAME=VALUE
DockerArgvEnv(cmd, name) ==
    CASE cmd = "create" ->
           << <<"docker">>, <<"create">>, <<"--env">>, <<"CIBUILDWHEEL">> >>
           \o [i \in 1..(2 * Len(options.environment)) |->
                 IF i % 2 = 1 THEN <<"--env">>
                 ELSE <<options.environment[i \div 2].name, "=">>
                      \o options.environment[i \div 2].value]
           \o << <<"--name">>, name,
              <<"-i">>, <<"-v">>, <<"/:/host">>, <<"docker_image">>, <<"/bin/bash">> >>
      [] cmd = "start" -> << <<"docker">>, <<"start">>, <<"-i">>, <<"-a">>, name >>
      [] cmd = "rm" -> << <<"docker">>, <<"rm">>, <<"--force">>, <<"-v">>, name >>

\* lines 72-77, 85, 196: the command lines of docker, one text for each argument
DockerArgv(cmd, name) ==
    CASE cmd = "create" ->
           << <<"docker">>, <<"create">>, <<"--env">>, <<"CIBUILDWHEEL">>, <<"--name">>, name,
              <<"-i">>, <<"-v">>, <<"/:/host">>, <<"docker_image">>, <<"/bin/bash">> >>
      [] cmd = "start" -> << <<"docker">>, <<"start">>, <<"-i">>, <<"-a">>, name >>
      [] cmd = "rm" -> << <<"docker">>, <<"rm">>, <<"--force">>, <<"-v">>, name >>

\* the arguments of build() that reach the script as text; one of them holds
\* the value that is varied, the others a plain value or nothing.  The
\* placeholder of a varied repair command is {wheel}.
Slots == {"before_build", "repair_command", "test_command", "test_requires", "test_extras"}

ScriptOptions(slot, value, environment) ==
    [slot |-> slot,
     value |-> value,
     before_build |-> IF slot = "before_build" THEN value ELSE <<>>,
     repair_command |-> IF slot = "repair_command"
                        THEN ReplaceToken(value, "{project}", <<"{wheel}">>) ELSE <<"r">>,
     test_command |-> IF slot = "test_command" THEN value ELSE <<"t">>,
     test_requires |-> IF slot = "test_requires" /\ value # <<>>
                       THEN << <<"q">>, value >> ELSE <<>>,
     test_extras |-> IF slot = "test_extras" THEN value ELSE <<>>,
     dependency_constraints |-> FALSE,
     environment |-> environment]

InitScript ==
    /\ host = "linux"
    /\ \E slot \in Slots, value \in Texts(MaxValueLen), environment \in Environments :
          options = ScriptOptions(slot, value, environment)
    /\ macos_version = <<>>
    /\ machine_arch = "unknown"
    /\ pc = "script create"
    /\ exc = "none"
    /\ python_configurations = <<LinuxCatalog[6]>>
    /\ warnings = <<>>
    /\ platform_index = 1
    /\ platform_configs = <<LinuxCatalog[6]>>
    /\ config_index = 1
    /\ container_name = 1
    /\ containers = {}
    /\ docker_log = <<>>
    /\ child = "none"
    /\ returncode = 0
    /\ script_pc = "none"
    /\ built_wheel_dir = {}
    /\ repaired_wheel_dir = {}
    /\ built_wheel = NoWheel
    /\ repaired_wheel = <<>>
    /\ container_output = {}
    /\ output_dir = {}
    /\ step_log = <<>>
    /\ temp_dirs = {}
    /\ SYMLINKS_DIR = {}
    /\ testing_archs = <<>>
    /\ testing_index = 0
    /\ NoPr

ScriptFrame == <<PrOnly, host, options, macos_version, machine_arch, exc, python_configurations,
                 warnings, platform_index, platform_configs, config_index, container_name,
                 child, returncode, script_pc, built_wheel_dir, repaired_wheel_dir,
                 built_wheel, repaired_wheel, container_output, output_dir, temp_dirs,
                 SYMLINKS_DIR, testing_archs, testing_index>>

\* run_docker: the command line is made and the child spawned; what is written
\* to its standard input is kept with it
Spawn(cmd, argv, stdin) ==
    docker_log' = Append(docker_log, [cmd |-> cmd, name |-> container_name, n |-> 1,
                                      result |-> ExecOutcome(argv),
                                      argv |-> argv, stdin |-> stdin])

\* the name of the container as an argument
ContainerArg == <<"cibuildwheel-uuid4">>

\* lines 72-77
SpawnCreate ==
    /\ pc = "script create"
    /\ Spawn("create", DockerArgv("create", ContainerArg), <<>>)
    /\ containers' = (IF Last(docker_log').result = "ok" THEN {container_name} ELSE containers)
    /\ pc' = (IF Last(docker_log').result = "ok" THEN "script start" ELSE "script rm")
    /\ UNCHANGED <<ScriptFrame, step_log>>

\* lines 85-188, 38-41: the script is composed and fed to `docker start`
SpawnStart ==
    /\ pc = "script start"
    /\ Spawn("start", DockerArgv("start", ContainerArg), Script(options, config))
    /\ pc' = (IF Last(docker_log').result = "ok" THEN "script shell" ELSE "script rm")
    /\ UNCHANGED <<ScriptFrame, containers, step_log>>

\* the variables of the script as the shell of the container sees them: what
\* $A and $B stand for is whatever the container has set
ContainerVars == [name \in NameTokens |-> <<"value of", name>>]

\* /bin/bash in the container reads the script from its standard input
ShellReads ==
    /\ pc = "script shell"
    /\ LET read == ShellCommands(Last(docker_log).stdin, ContainerVars)
       IN  step_log' = <<[n |-> 1, step |-> "script", ok |-> ~read.error, arg |-> read.cmds]>>
    /\ pc' = "script rm"
    /\ UNCHANGED <<ScriptFrame, containers, docker_log>>

\* lines 194-196
SpawnRm ==
    /\ pc = "script rm"
    /\ Spawn("rm", DockerArgv("rm", ContainerArg), <<>>)
    /\ containers' = {}
    /\ pc' = "left"
    /\ UNCHANGED <<ScriptFrame, step_log>>

NextScript == SpawnCreate \/ SpawnStart \/ ShellReads \/ SpawnRm

SpecScript == InitScript /\ [][NextScript]_vars

(***************************************************************************)
(* environment.as_dictionary(prev_environment), called at macos.py 194: the *)
(* environment option is an ordered list of assignments, evaluated one      *)
(* after the other against the environment so far.                         *)
(***************************************************************************)
\* bound: the number of assignments of an environment option
MaxAssignments == 2

\* options_test.py 101-150: the values that must arrive as they are
EvilValues ==
    { <<"a", " ", "a">>,
      <<"\"", "a", " ", "a", "\"">>,
      <<"a", ":", " ", "'">>,
      <<"a", ":", " ", "\"">>,
      <<"a", "\n", "a", "\n">>,
      <<"a", " ", "\\">> }

\* options_test.py 153-188: words with references and quotations
ExpressionWords ==
    { <<"x">>,
      <<"$", "A">>,
      <<"\"", "$", "B", "\"">>,
      <<"\"", "a", " ", "$", "A", " ", "$", "B", "\"">>,
      <<"a", ":", "$", "A", ":", "a">>,
      <<"'", "$", "A", "'">> }

\* the names the assignments of the lists below give a value to
AssignedNames == {"A", "B"}

\* an assignment is a value of the host passed through, a literal value of the
\* configuration file, or a word to be evaluated
EnvironmentAssignments ==
    [name : AssignedNames, kind : {"pass", "literal"}, value : EvilValues]
    \cup [name : AssignedNames, kind : {"expression"}, value : ExpressionWords]

RECURSIVE AssignmentLists(_)
AssignmentLists(n) ==
    IF n = 0 THEN {<<>>}
    ELSE AssignmentLists(n - 1)
         \cup {Append(l, a) : l \in {k \in AssignmentLists(n - 1) : Len(k) = n - 1},
                              a \in EnvironmentAssignments}

\* the environments as_dictionary is called with
NoEnvironment == [n \in {} |-> <<>>]

PrevEnvironments == {NoEnvironment, [n \in {"A"} |-> <<"spam">>]}

\* the word of an assignment: a literal value is written as a quoted word
WordOf(a) == IF a.kind = "literal" THEN shlex_quote(a.value) ELSE a.value

\* the evaluation of a word against an environment: the text the shell makes
\* of it, ParseError when it is not one word
evaluate(word, environment) ==
    LET read == ShellCommands(word, environment)
    IN  IF read.error \/ Len(read.cmds) > 1 \/ (read.cmds # <<>> /\ Len(read.cmds[1]) > 1)
        THEN <<"ParseError">>
        ELSE <<"value", IF read.cmds = <<>> THEN <<>> ELSE read.cmds[1][1]>>

\* a passed value evaluated as a word, like the others
ValueOfWord(a, environment) == evaluate(WordOf(a), environment)

\* the value of an assignment in an environment: a passed value is taken as it
\* is, any other is the evaluation of its word
ValueOf(a, environment) ==
    IF a.kind = "pass" THEN <<"value", a.value>> ELSE evaluate(WordOf(a), environment)

Assigned(environment, name, value) ==
    [n \in DOMAIN environment \cup {name} |-> IF n = name THEN value ELSE environment[n]]

\* every assignment evaluated against the environment as_dictionary was called
\* with
EnvironmentAtCall == options.prev_environment

\* the environment after the assignments evaluated so far
EnvironmentSoFar ==
    IF step_log = <<>> THEN options.prev_environment ELSE Last(step_log).arg

InitEnv ==
    /\ host = "macos"
    /\ \E l \in AssignmentLists(MaxAssignments), prev \in PrevEnvironments :
          options = [environment |-> l, prev_environment |-> prev]
    /\ macos_version = <<>>
    /\ machine_arch = "unknown"
    /\ pc = "as_dictionary"
    /\ exc = "none"
    /\ python_configurations = <<MacCatalog[3]>>
    /\ warnings = <<>>
    /\ platform_index = 0
    /\ platform_configs = <<>>
    /\ config_index = 1
    /\ container_name = 0
    /\ containers = {}
    /\ docker_log = <<>>
    /\ child = "none"
    /\ returncode = 0
    /\ script_pc = "none"
    /\ built_wheel_dir = {}
    /\ repaired_wheel_dir = {}
    /\ built_wheel = NoWheel
    /\ repaired_wheel = <<>>
    /\ container_output = {}
    /\ output_dir = {}
    /\ step_log = <<>>
    /\ temp_dirs = {}
    /\ SYMLINKS_DIR = {}
    /\ testing_archs = <<>>
    /\ testing_index = 0
    /\ NoPr

EnvFrame == <<PrOnly, host, options, macos_version, machine_arch, python_configurations, warnings,
              platform_index, platform_configs, config_index, container_name, containers,
              docker_log, child, returncode, script_pc, built_wheel_dir, repaired_wheel_dir,
              built_wheel, repaired_wheel, container_output, output_dir, temp_dirs,
              SYMLINKS_DIR, testing_archs, testing_index>>

\* the next assignment of the list is evaluated and put into the environment
EvaluateAssignment ==
    /\ pc = "as_dictionary"
    /\ Len(step_log) < Len(options.environment)
    /\ LET n == Len(step_log) + 1
           a == options.environment[n]
           v == ValueOf(a, EnvironmentSoFar)
       IN  IF v[1] = "ParseError"
           THEN /\ exc' = "ParseError"
                /\ pc' = "left"
                /\ step_log' = step_log
           ELSE /\ step_log' = Append(step_log,
                                      [n |-> n, step |-> a.name, ok |-> TRUE,
                                       arg |-> Assigned(EnvironmentSoFar, a.name, v[2])])
                /\ UNCHANGED <<pc, exc>>
    /\ UNCHANGED EnvFrame

\* as_dictionary returns the environment
ReturnEnvironment ==
    /\ pc = "as_dictionary"
    /\ Len(step_log) = Len(options.environment)
    /\ pc' = "evaluated"
    /\ UNCHANGED <<EnvFrame, exc, step_log>>

NextEnv == EvaluateAssignment \/ ReturnEnvironment

SpecEnv == InitEnv /\ [][NextEnv]_vars

(***************************************************************************)
(* The environment of a configuration: macos.py setup_python, lines 180-237 *)
(* and linux.py lines 91-103 of the script.  The driver puts its own        *)
(* interpreter first on PATH, the user's environment is applied, and        *)
(* `which python` and `which pip` are compared with the driver's own.       *)
(***************************************************************************)
\* as_dictionary as a function: the assignments evaluated in order
RECURSIVE as_dictionary(_, _)
as_dictionary(assignments, prev_environment) ==
    IF assignments = <<>> THEN prev_environment
    ELSE LET a == Head(assignments)
         IN  as_dictionary(Tail(assignments),
                           Assigned(prev_environment, a.name, ValueOf(a, prev_environment)[2]))

\* a PATH is a text of directories with ":" between them
Directories(path) == SelectSeq(path, LAMBDA t : t # ":")

\* the directory of the driver's interpreter: SYMLINKS_DIR on macOS (line 97),
\* $PYBIN on Linux (line 91)
DriverBin == IF host = "macos" THEN "/tmp/cibw_bin" ELSE "$PYBIN"

\* which of the programs python and pip a directory holds
Holds(dir) ==
    CASE dir \in {"/tmp/cibw_bin", "$PYBIN", "/user/both"} -> {"python", "pip"}
      [] dir = "installation_bin_path" -> {"pip"}
      [] dir \in {"/usr/bin", "/user/python"} -> {"python"}
      [] dir = "/user/pip" -> {"pip"}
      [] OTHER -> {}

\* `which program`: the first directory of PATH that holds it; nothing (and a
\* non-zero exit) when none does
which(program, environment) ==
    LET dirs == IF "PATH" \in DOMAIN environment THEN Directories(environment["PATH"])
                ELSE <<>>
        found == {i \in DOMAIN dirs : program \in Holds(dirs[i])}
    IN  IF found = {} THEN <<>>
        ELSE <<dirs[CHOOSE i \in found : \A j \in found : i <= j], "/", program>>

\* variant of setdefault: the value is set whether or not the name has one
SetAlways(environment, name, value) == Assigned(environment, name, value)

\* dict.setdefault
setdefault(environment, name, value) ==
    IF name \in DOMAIN environment THEN environment ELSE Assigned(environment, name, value)

\* the environment of the process that runs the driver, and of the container
HostEnvironments ==
    IF host = "macos"
    THEN {[n \in {"PATH"} |-> <<"/usr/bin">>],
          [n \in {"PATH", "MACOSX_DEPLOYMENT_TARGET"} |->
              IF n = "PATH" THEN <<"/usr/bin">> ELSE <<"host">>]}
    ELSE {[n \in {"PATH"} |-> <<"/usr/local/bin", ":", "/usr/bin">>]}

\* lines 180-185 (macOS), 91-92 (Linux): the driver's directories go first
DriverPath(environment) ==
    Assigned(environment, "PATH",
             (IF host = "macos" THEN <<"/tmp/cibw_bin", ":", "installation_bin_path", ":">>
              ELSE <<"$PYBIN", ":">>) \o environment["PATH"])

\* lines 214-232: the defaults of setup_python
Defaults(c, environment) ==
    LET target == setdefault(environment, "MACOSX_DEPLOYMENT_TARGET", <<"10.9">>)
        Both(e, platform, flags) ==
            setdefault(setdefault(e, "_PYTHON_HOST_PLATFORM", <<platform>>),
                       "ARCHFLAGS", <<flags>>)
        after35 == IF c.version = <<"3", ".", "5">>
                   THEN Both(target, "macosx-10.9-x86_64", "-arch x86_64") ELSE target
    IN  IF c.version = <<"3", ".", "9">>
        THEN IF EndsWith(c.identifier, <<"x86_64">>)
             THEN Both(after35, "macosx-10.9-x86_64", "-arch x86_64")
             ELSE IF EndsWith(c.identifier, <<"arm64">>)
             THEN Both(after35, "macosx-11.0-arm64", "-arch arm64")
             ELSE after35
        ELSE after35

\* what the user's environment option does to PATH
PathAssignments ==
    { <<>>,
      <<[name |-> "PATH", kind |-> "expression", value |-> <<"/user/python", ":", "$", "PATH">>]>>,
      <<[name |-> "PATH", kind |-> "expression", value |-> <<"/user/pip", ":", "$", "PATH">>]>>,
      <<[name |-> "PATH", kind |-> "expression", value |-> <<"$", "PATH", ":", "/user/both">>]>>,
      <<[name |-> "PATH", kind |-> "expression", value |-> <<"/usr/bin">>]>>,
      <<[name |-> "PATH", kind |-> "expression", value |-> <<"/nowhere">>]>> }

\* the variables setup_python has defaults for
DefaultedNames == {"MACOSX_DEPLOYMENT_TARGET", "_PYTHON_HOST_PLATFORM", "ARCHFLAGS"}

RECURSIVE UserAssignments(_)
UserAssignments(names) ==
    IF names = {} THEN <<>>
    ELSE LET n == CHOOSE m \in names : TRUE
         IN  <<[name |-> n, kind |-> "expression", value |-> <<"user">>]>>
             \o UserAssignments(names \ {n})

\* the environments the user may have asked for
UserEnvironments ==
    {p \o UserAssignments(names) :
        p \in PathAssignments, names \in (IF host = "macos" THEN SUBSET DefaultedNames ELSE {{}})}

\* the configurations setup_python and the script are run for
SetupConfigurations ==
    IF host = "macos" THEN Range(MacCatalog) ELSE {LinuxCatalog[1], LinuxCatalog[6]}

InitSetup ==
    /\ host \in {"macos", "linux"}
    /\ \E environment \in UserEnvironments, os_environ \in HostEnvironments,
          before_build \in BOOLEAN :
          options = [environment |-> environment, os_environ |-> os_environ,
                     before_build |-> before_build]
    /\ \E c \in SetupConfigurations :
          /\ python_configurations = <<c>>
          /\ platform_configs = (IF host = "linux" THEN <<c>> ELSE <<>>)
    /\ macos_version = <<>>
    /\ machine_arch = "unknown"
    /\ pc = "environment"
    /\ exc = "none"
    /\ warnings = <<>>
    /\ platform_index = (IF host = "linux" THEN 1 ELSE 0)
    /\ config_index = 1
    /\ container_name = (IF host = "linux" THEN 1 ELSE 0)
    /\ containers = (IF host = "linux" THEN {1} ELSE {})
    /\ docker_log = <<>>
    /\ child = "none"
    /\ returncode = 0
    /\ script_pc = "none"
    /\ built_wheel_dir = {}
    /\ repaired_wheel_dir = {}
    /\ built_wheel = NoWheel
    /\ repaired_wheel = <<>>
    /\ container_output = {}
    /\ output_dir = {}
    /\ step_log = <<>>
    /\ temp_dirs = {}
    /\ SYMLINKS_DIR = {}
    /\ testing_archs = <<>>
    /\ testing_index = 0
    /\ NoPr

SetupFrame == <<PrOnly, host, options, macos_version, machine_arch, python_configurations, warnings,
                platform_index, platform_configs, config_index, container_name, containers,
                docker_log, child, returncode, script_pc, built_wheel_dir,
                repaired_wheel_dir, built_wheel, repaired_wheel, container_output,
                output_dir, temp_dirs, SYMLINKS_DIR, testing_archs, testing_index>>

\* the environment the commands of the configuration are run with
SetupEnv == Last(SelectSeq(step_log, LAMBDA e : e.step \in {"environment", "defaults"})).arg

\* macos.py 180-194, linux.py 91-94: the driver's directories are put first on
\* PATH, then the user's assignments are evaluated
ApplyEnvironment ==
    /\ pc = "environment"
    /\ Step("environment", TRUE, as_dictionary(options.environment, DriverPath(options.os_environ)))
    /\ pc' = (IF host = "macos" THEN "which python" ELSE "which pip")
    /\ UNCHANGED <<SetupFrame, exc>>

\* variant of WhichCheck: the program found is printed and not compared
WhichUnchecked(program, ran, next_pc) ==
    LET label == IF program = "python" THEN "which python" ELSE "which pip"
    IN  /\ pc = label
        /\ Step(label, ran, IF ran THEN which(program, SetupEnv) ELSE <<>>)
        /\ pc' = (IF ran THEN next_pc ELSE "left")
        /\ exc' = (IF ran THEN exc
                   ELSE IF host = "macos" THEN MacExcept ELSE ExceptCalledProcessError)
        /\ UNCHANGED SetupFrame

\* macos.py 196-201 and 203-212, linux.py 98-99: the program found on PATH is
\* compared with the driver's; on a difference macOS calls exit(1) and the
\* Linux script ends by errexit, and a `which` that finds nothing raises
\* CalledProcessError on macOS: all of them leave build() with exit(1).
\* `ran` tells whether the commands before the comparison succeeded.
WhichCheck(program, ran, next_pc) ==
    LET label == IF program = "python" THEN "which python" ELSE "which pip"
        found == which(program, SetupEnv)
        ok == ran /\ found = <<DriverBin, "/", program>>
    IN  /\ pc = label
        /\ Step(label, ok, IF ran THEN found ELSE <<>>)
        /\ pc' = (IF ok THEN next_pc ELSE "left")
        /\ exc' = (IF ok THEN exc
                   ELSE IF host = "macos" THEN MacExcept ELSE ExceptCalledProcessError)
        /\ UNCHANGED SetupFrame

\* macos.py 196-201
MacWhichPython == host = "macos" /\ WhichCheck("python", TRUE, "which pip")

\* macos.py 203-212: get-pip is run first
MacWhichPip == host = "macos" /\ \E ran \in BOOLEAN : WhichCheck("pip", ran, "defaults")

\* linux.py 98
LinuxTestPip == host = "linux" /\ WhichCheck("pip", TRUE, "which python")

\* linux.py 99
LinuxTestPython == host = "linux" /\ WhichCheck("python", TRUE, "first command")

\* macos.py 214-237: the defaults are set, the build tools are installed and
\* the environment is returned
SetDefaults ==
    /\ host = "macos" /\ pc = "defaults"
    /\ \E ok \in BOOLEAN :
        /\ Step("defaults", ok, Defaults(config, SetupEnv))
        /\ MacCall(ok, "first command")
    /\ UNCHANGED SetupFrame

\* macos.py 272-292, linux.py 101-109: the before-build hook when there is one,
\* else the build of the wheel, run in that environment
FirstCommand ==
    /\ pc = "first command"
    /\ Step(IF options.before_build THEN "before_build" ELSE "build", TRUE, SetupEnv)
    /\ pc' = "done"
    /\ UNCHANGED <<SetupFrame, exc>>

NextSetup ==
    \/ ApplyEnvironment
    \/ MacWhichPython
    \/ MacWhichPip
    \/ LinuxTestPip
    \/ LinuxTestPython
    \/ SetDefaults
    \/ FirstCommand

SpecSetup == InitSetup /\ [][NextSetup]_vars

(***************************************************************************)
(* bin/make_dependency_update_pr.py: main().  The repository is its        *)
(* current branch, its local branches, whether the working tree and the    *)
(* index differ from HEAD, and the commits and pull requests made.  A      *)
(* command whose result depends on the world outside the repository (the   *)
(* network, bin/update_dependencies.py, the commit hooks) may fail; a git  *)
(* command that reads or changes the repository only gives what git gives  *)
(* in that state.                                                          *)
(***************************************************************************)
LocalBranches == {<<"master">>, <<"feature">>}

\* HEAD is no branch
Detached == <<"(detached)">>

\* time.strftime(...) of the moment the script runs
Timestamps == {"T1", "T2"}

\* f'update-constraints-{timestamp}'
UpdateBranch(timestamp) == <<"update-constraints-", timestamp>>

\* the working tree or the index differs from HEAD
Changes(r) == r.unstaged \/ r.staged

InitPr ==
    /\ host = "linux"
    /\ options \in [HEAD : LocalBranches \cup {Detached},
                    unstaged : BOOLEAN,
                    staged : BOOLEAN,
                    leftover : SUBSET {UpdateBranch(t) : t \in Timestamps},
                    timestamp : Timestamps,
                    diverged : BOOLEAN]
    \* leftover: update branches an earlier run has left; diverged: the files
    \* the update writes differ between origin/master and the previous HEAD
    /\ repo = [HEAD |-> options.HEAD,
               branches |-> LocalBranches \cup options.leftover,
               unstaged |-> options.unstaged,
               staged |-> options.staged,
               commits |-> 0,
               pull_requests |-> 0]
    /\ shell_log = <<>>
    /\ previous_branch = "none"
    /\ branch_name = "none"
    /\ macos_version = <<>>
    /\ machine_arch = "unknown"
    /\ pc = "main"
    /\ exc = "none"
    /\ python_configurations = <<>>
    /\ warnings = <<>>
    /\ platform_index = 0
    /\ platform_configs = <<>>
    /\ config_index = 0
    /\ container_name = 0
    /\ containers = {}
    /\ docker_log = <<>>
    /\ child = "none"
    /\ returncode = 0
    /\ script_pc = "none"
    /\ built_wheel_dir = {}
    /\ repaired_wheel_dir = {}
    /\ built_wheel = NoWheel
    /\ repaired_wheel = <<>>
    /\ container_output = {}
    /\ output_dir = {}
    /\ step_log = <<>>
    /\ temp_dirs = {}
    /\ SYMLINKS_DIR = {}
    /\ testing_archs = <<>>
    /\ testing_index = 0

PrFrame == <<host, options, macos_version, machine_arch, python_configurations, warnings,
             platform_index, platform_configs, config_index, container_name, containers,
             docker_log, child, returncode, script_pc, built_wheel_dir, repaired_wheel_dir,
             built_wheel, repaired_wheel, container_output, output_dir, step_log, temp_dirs,
             SYMLINKS_DIR, testing_archs, testing_index>>

\* shell(cmd) and run([...]): the command, its exit status, and whether the
\* repository r it leaves has changes
Ran(cmd, arg, ok, r) ==
    [cmd |-> cmd, arg |-> arg, returncode |-> (IF ok THEN 0 ELSE 1), changes |-> Changes(r)]

\* check=True: a non-zero exit status raises CalledProcessError
Check(ok, next_pc, raised_pc) ==
    /\ pc' = (IF ok THEN next_pc ELSE raised_pc)
    /\ exc' = (IF ok THEN exc ELSE "CalledProcessError")

\* git_repo_has_changes(): both commands run, whatever the first one gives
git_repo_has_changes ==
    << Ran("git diff-index --quiet HEAD --", <<>>, ~Changes(repo), repo),
       Ran("git diff-index --quiet --cached HEAD --", <<>>, ~repo.staged, repo) >>

\* lines 30-32
ExitOnChanges ==
    /\ pc = "main"
    /\ shell_log' = shell_log \o git_repo_has_changes
    /\ IF Changes(repo)
       THEN pc' = "done" /\ exc' = "SystemExit1"
       ELSE pc' = "rev-parse" /\ exc' = exc
    /\ UNCHANGED <<PrFrame, repo, previous_branch, branch_name>>

\* lines 34-36: git prints HEAD when HEAD is no branch
RevParse ==
    /\ pc = "rev-parse"
    /\ previous_branch' = (IF repo.HEAD = Detached THEN <<"HEAD">> ELSE repo.HEAD)
    /\ shell_log' = Append(shell_log, Ran("git rev-parse --abbrev-ref HEAD", <<>>, TRUE, repo))
    /\ pc' = "fetch"
    /\ UNCHANGED <<PrFrame, repo, branch_name, exc>>

\* line 38
Fetch ==
    /\ pc = "fetch"
    /\ \E ok \in BOOLEAN :
          /\ shell_log' = Append(shell_log, Ran("git fetch origin", <<>>, ok, repo))
          /\ Check(ok, "checkout -b", "done")
    /\ UNCHANGED <<PrFrame, repo, previous_branch, branch_name>>

\* lines 40-43: git refuses to create a branch that exists
CheckoutNewBranch ==
    /\ pc = "checkout -b"
    /\ branch_name' = UpdateBranch(options.timestamp)
    /\ LET ok == branch_name' \notin repo.branches
       IN  /\ repo' = (IF ok
                       THEN [repo EXCEPT !.HEAD = branch_name',
                                         !.branches = @ \cup {branch_name'}]
                       ELSE repo)
           /\ shell_log' = Append(shell_log,
                                  Ran("git checkout -b", branch_name', ok, repo'))
           /\ Check(ok, "update", "done")
    /\ UNCHANGED <<PrFrame, previous_branch>>

\* line 46: the update may rewrite tracked files, and may fail before or after
UpdateDependencies ==
    /\ pc = "update"
    /\ \E ok \in BOOLEAN, changed \in BOOLEAN :
          /\ repo' = [repo EXCEPT !.unstaged = changed]
          /\ shell_log' = Append(shell_log, Ran("bin/update_dependencies.py", <<>>, ok, repo'))
          /\ Check(ok, "changes?", "finally")
    /\ UNCHANGED <<PrFrame, previous_branch, branch_name>>

\* lines 48-50
ReturnIfUnchanged ==
    /\ pc = "changes?"
    /\ shell_log' = shell_log \o git_repo_has_changes
    /\ pc' = (IF ~Changes(repo) THEN "finally" ELSE "commit")
    /\ UNCHANGED <<PrFrame, repo, previous_branch, branch_name, exc>>

\* line 52
Commit ==
    /\ pc = "commit"
    /\ \E ok \in BOOLEAN :
          /\ repo' = (IF ok
                      THEN [repo EXCEPT !.unstaged = FALSE, !.staged = FALSE,
                                        !.commits = @ + 1]
                      ELSE repo)
          /\ shell_log' = Append(shell_log, Ran("git commit -a", <<>>, ok, repo'))
          /\ Check(ok, "pr", "finally")
    /\ UNCHANGED <<PrFrame, previous_branch, branch_name>>

\* lines 53-73
PrCreate ==
    /\ pc = "pr"
    /\ \E ok \in BOOLEAN :
          /\ repo' = (IF ok THEN [repo EXCEPT !.pull_requests = @ + 1] ELSE repo)
          /\ shell_log' = Append(shell_log, Ran("gh pr create", <<>>, ok, repo'))
          /\ Check(ok, "finally", "finally")
    /\ UNCHANGED <<PrFrame, previous_branch, branch_name>>

\* variant of FinallyDiscard: the local changes are left in the working tree
FinallyKeepChanges ==
    /\ pc = "finally"
    /\ pc' = "finally checkout"
    /\ UNCHANGED <<PrFrame, repo, shell_log, previous_branch, branch_name, exc>>

\* line 76, the first command of the finally block: its exit status is not
\* looked at
FinallyDiscard ==
    /\ pc = "finally"
    /\ repo' = [repo EXCEPT !.unstaged = FALSE]
    /\ shell_log' = Append(shell_log, Ran("git checkout -- .", <<>>, TRUE, repo'))
    /\ pc' = "finally checkout"
    /\ UNCHANGED <<PrFrame, previous_branch, branch_name, exc>>

\* line 77: git refuses to switch when that would overwrite local changes;
\* `git checkout HEAD` switches nowhere
FinallyCheckout ==
    /\ pc = "finally checkout"
    /\ LET ok == ~(Changes(repo) /\ options.diverged)
       IN  /\ repo' = (IF ok /\ previous_branch # <<"HEAD">>
                       THEN [repo EXCEPT !.HEAD = previous_branch]
                       ELSE repo)
           /\ shell_log' = Append(shell_log, Ran("git checkout", previous_branch, ok, repo'))
           /\ Check(ok, "finally delete", "done")
    /\ UNCHANGED <<PrFrame, previous_branch, branch_name>>

\* line 78: git refuses to delete the branch that is checked out
FinallyDelete ==
    /\ pc = "finally delete"
    /\ LET ok == branch_name \in repo.branches /\ repo.HEAD # branch_name
       IN  /\ repo' = (IF ok THEN [repo EXCEPT !.branches = @ \ {branch_name}] ELSE repo)
           /\ shell_log' = Append(shell_log,
                                  Ran("git branch -D --force", branch_name, ok, repo'))
           /\ Check(ok, "done", "done")
    /\ UNCHANGED <<PrFrame, previous_branch, branch_name>>

NextPr ==
    \/ ExitOnChanges
    \/ RevParse
    \/ Fetch
    \/ CheckoutNewBranch
    \/ UpdateDependencies
    \/ ReturnIfUnchanged
    \/ Commit
    \/ PrCreate
    \/ FinallyDiscard
    \/ FinallyCheckout
    \/ FinallyDelete

SpecPr == InitPr /\ [][NextPr]_vars

(***************************************************************************)
(* Properties.                                                             *)
(***************************************************************************)
\* a step of some configuration has failed
Failed == \E i \in DOMAIN step_log : ~step_log[i].ok

\* build() is not inside the try statement of a container
OutsideTry == pc \in {"for_platform", "docker_create", "left"}

\* `docker rm` of the container of entry i of the log was issued after it
RmAfter(i) ==
    \E j \in (i + 1)..Len(docker_log) :
        docker_log[j].cmd = "rm" /\ docker_log[j].name = docker_log[i].name

\* C1: on Linux, whenever build() is outside the try statement (between two
\* platforms, or left by success, by a failed docker command or by an
\* interrupt), `docker rm` has been issued for every container for which
\* `docker create` was attempted.
C1_RmForEveryCreate ==
    (host = "linux" /\ OutsideTry) =>
        \A i \in DOMAIN docker_log : docker_log[i].cmd = "create" => RmAfter(i)

\* build() was left by an interrupt after `docker create` was attempted
C1_Witness ==
    /\ host = "linux" /\ pc = "left" /\ exc = "KeyboardInterrupt"
    /\ \E i \in DOMAIN docker_log : docker_log[i].cmd = "create"

\* C2: when the run is aborted by the failure of a configuration, the wheels
\* that earlier configurations moved to the output are in the host output
\* directory.
C2_EarlierWheelsInOutput ==
    (pc = "left" /\ Failed) =>
        \A i \in DOMAIN step_log :
            (step_log[i].step = "move" /\ step_log[i].ok) => step_log[i].arg \subseteq output_dir

\* the exit status of the interpreter: the code of SystemExit, 1 for any other
\* exception that leaves build()
ExitStatus(e) ==
    CASE e = "none" -> 0
      [] e = "SystemExit1" -> 1
      [] e = "SystemExit2" -> 2
      [] OTHER -> 1

\* a configuration after the current one is still to be processed
LaterConfiguration ==
    IF host = "linux"
    THEN \/ config_index < Len(platform_configs)
         \/ /\ platform_index = 1
            /\ PlatformConfigs(python_configurations, LinuxPlatforms[2]) # <<>>
    ELSE config_index < Len(python_configurations)

\* C3: on both drivers a failed step is the last step of the run: once a step
\* of a configuration has failed only the clean-up runs, no step of that or of
\* a later configuration is started, and the run ends with exit status 1.
C3_FailFast ==
    /\ \A i \in 1..(Len(step_log) - 1) : step_log[i].ok
    /\ Failed =>
        /\ pc \in {"finally", "left"}
        /\ exc \in {"SystemExit1", "CalledProcessError"}
        /\ pc = "left" => ExitStatus(exc) = 1

\* a step failed while a later configuration was still to be processed, and
\* build() has been left
C3_Witness == Failed /\ pc = "left" /\ LaterConfiguration /\ Len(step_log) > 1

\* C4: on Linux, when build() is left because a docker command failed while a
\* container was active, the last docker command issued is `docker rm` of that
\* container, and the container is gone unless that command failed.
C4_RmBeforeFailureLeaves ==
    (host = "linux" /\ pc = "left" /\ container_name # 0
        /\ exc \in {"SystemExit1", "CalledProcessError"}) =>
        /\ Last(docker_log).cmd = "rm"
        /\ Last(docker_log).name = container_name
        /\ Last(docker_log).result = "ok" => container_name \notin containers

\* the script of a configuration failed and build() has been left with the
\* container removed
C4_Witness ==
    /\ host = "linux" /\ pc = "left" /\ exc = "SystemExit1" /\ returncode = 1
    /\ Failed /\ container_name \notin containers

\* C5: on macOS a build that leaves a wheel named *none-any.whl is the last
\* step of the run: build() is left with NonPlatformWheelError, no repair,
\* test or move step follows, and the wheel is neither in the repaired-wheel
\* directory nor in the output directory.
C5_NonPlatformWheelError ==
    host = "macos" =>
        \A i \in DOMAIN step_log :
            (step_log[i].step = "build" /\ step_log[i].ok /\ PureWheel \in step_log[i].arg) =>
                /\ i = Len(step_log)
                /\ pc = "left"
                /\ exc = "NonPlatformWheelError"
                /\ PureWheel \notin (repaired_wheel_dir \cup output_dir)

\* a configuration built a pure wheel with a repair and a test command set
C5_Witness ==
    /\ host = "macos" /\ exc = "NonPlatformWheelError" /\ config_index = 1
    /\ options.repair_command /\ options.test_command
    /\ PureWheel \in built_wheel_dir

AtLeast11 ==
    /\ macos_version # <<>>
    /\ \/ macos_version[1] > 11
       \/ macos_version[1] = 11 /\ Len(macos_version) >= 2

\* entry i of the macOS catalog is accepted by the selector and is for one of
\* the architectures asked for
MacAsked(i) ==
    /\ MacCatalog[i].identifier \in options.build_selector
    /\ Last(MacCatalog[i].identifier) \in options.architectures

PyPyOr35(identifier) ==
    identifier[1] = "pp" \/ (identifier[1] = "cp" /\ identifier[2] = "35")

\* get_python_configurations has returned
Enumerated ==
    /\ pc \notin {"enumerate", "docker_version", "archs", "before_all",
                  "get_python_configurations"}
    /\ host = "macos" => macos_version # <<>>

\* C7: on macOS at version (11, 0) or later get_python_configurations returns
\* no PyPy and no CPython 3.5 configuration, for every selector and every set of
\* architectures, and build() installs no such interpreter and builds no wheel
\* for one; on an earlier version every catalog entry asked for is returned.
C7_PrunedOnMacOS11 ==
    (host = "macos" /\ Enumerated) =>
        IF AtLeast11
        THEN /\ \A c \in Range(python_configurations) : ~PyPyOr35(c.identifier)
             /\ \A l \in SYMLINKS_DIR :
                    /\ l.target[2] \notin {"pypy", "pypy3"}
                    /\ l.target[1][2] # <<"3", ".", "5">>
             /\ \A i \in DOMAIN step_log :
                    LET c == python_configurations[step_log[i].n]
                    IN  ~PyPyOr35(c.identifier)
        ELSE \A i \in DOMAIN MacCatalog :
                 MacAsked(i) => MacCatalog[i] \in Range(python_configurations)

\* build() on macOS 11 was asked for a PyPy and left a wheel in the output
C7_Witness ==
    /\ host = "macos" /\ AtLeast11 /\ pc = "left" /\ output_dir # {}
    /\ \E id \in options.build_selector : id[1] = "pp"

\* an entry of the stated kind was asked for and is not in the returned list
Dropped(kind) ==
    \E i \in DOMAIN MacCatalog :
        /\ MacAsked(i)
        /\ MacCatalog[i].identifier[1] = kind[1]
        /\ Len(kind) = 2 => MacCatalog[i].identifier[2] = kind[2]
        /\ MacCatalog[i] \notin Range(python_configurations)

\* C8: on macOS a warning is logged for PyPy exactly when a PyPy configuration
\* that was asked for is dropped, and for CPython 3.5 exactly when a CPython
\* 3.5 configuration that was asked for is dropped; nothing else is dropped,
\* and nothing is dropped before version (11, 0).
C8_WarningPerDroppedKind ==
    (host = "macos" /\ Enumerated) =>
        /\ Dropped(<<"pp">>) <=> "PyPy unsupported on macOS 11" \in Range(warnings)
        /\ Dropped(<<"cp", "35">>) <=> "CPython 3.5 unsupported on macOS 11" \in Range(warnings)
        /\ \A i \in DOMAIN MacCatalog :
               (MacAsked(i) /\ MacCatalog[i] \notin Range(python_configurations)) =>
                   AtLeast11 /\ PyPyOr35(MacCatalog[i].identifier)
        /\ Len(warnings) <= 2

\* both kinds were asked for and dropped, and a configuration is left
C8_Witness ==
    /\ host = "macos" /\ pc = "enumerated" /\ Len(warnings) = 2
    /\ python_configurations # <<>>

\* the entries of the catalog with an index in kept, from entry i on, in the
\* order of the catalog
RECURSIVE InCatalogOrder(_, _, _)
InCatalogOrder(catalog, kept, i) ==
    IF i > Len(catalog) THEN <<>>
    ELSE (IF i \in kept THEN <<catalog[i]>> ELSE <<>>) \o InCatalogOrder(catalog, kept, i + 1)

LinuxKept == {i \in DOMAIN LinuxCatalog : LinuxCatalog[i].identifier \in options.build_selector}

MacKept ==
    {i \in DOMAIN MacCatalog :
        MacAsked(i) /\ ~(AtLeast11 /\ PyPyOr35(MacCatalog[i].identifier))}

\* C9: on either driver get_python_configurations returns exactly the catalog
\* entries the selector accepts (on macOS: for the architectures asked for, and
\* without the pruned ones), each as often as the catalog lists it and in the
\* order of the catalog; a second call with the same selector on the same host
\* returns the same list.
C9_CatalogSubsequence ==
    (pc \in {"enumerated", "enumerated twice"}) =>
        /\ python_configurations =
               (IF host = "linux" THEN InCatalogOrder(LinuxCatalog, LinuxKept, 1)
                ELSE InCatalogOrder(MacCatalog, MacKept, 1))
        /\ pc = "enumerated twice" => platform_configs = python_configurations

\* the selector accepts an identifier the Linux catalog lists twice and one it
\* lists once, and get_python_configurations was called twice
C9_Witness ==
    /\ host = "linux" /\ pc = "enumerated twice"
    /\ Len(python_configurations) = 3
    /\ python_configurations[1].identifier = python_configurations[2].identifier

\* the step that has to follow step a of a configuration
StepAfter(a, t) ==
    CASE a.step = "prepare" -> t = (IF options.before_build THEN "before_build" ELSE "build")
      [] a.step = "before_build" -> t = "build"
      [] a.step = "build" -> t \in {"repair", "repair_mv"}
      [] a.step \in {"repair", "repair_mv"} ->
            IF ~options.test_command THEN t = "move"
            ELSE IF host = "macos" /\ machine_arch = "x86_64"
                    /\ a.arg[Len(a.arg) - 1] = "arm64"
                 THEN t = "move"   \* an arm64 wheel cannot be tested on x86_64
                 ELSE t = "test_venv"
      [] a.step = "test_venv" -> t = "test_install"
      [] a.step = "test_install" -> t = "test_command"
      [] a.step = "test_command" -> t = "move" \/ (host = "macos" /\ t = "test_venv")
      [] OTHER -> FALSE

\* C10: on both drivers the steps of a configuration run in the order
\* preparation, before-build hook (if set), build, repair, test (if set), move
\* to the output; a step is started only after the step before it succeeded,
\* and a configuration is started only after the move of the one before it.
C10_StepOrder ==
    /\ step_log # <<>> => step_log[1].n = 1 /\ step_log[1].step = "prepare"
    /\ \A i \in 1..(Len(step_log) - 1) :
        LET a == step_log[i]
            b == step_log[i + 1]
        IN  /\ a.ok
            /\ \/ b.n = a.n /\ StepAfter(a, b.step)
               \/ b.n = a.n + 1 /\ a.step = "move" /\ b.step = "prepare"

\* a second configuration was started after a first ran all six steps
C10_Witness ==
    /\ options.before_build /\ options.test_command
    /\ \E i \in DOMAIN step_log : step_log[i].n = 2
    /\ \E i \in DOMAIN step_log : step_log[i].step = "test_command" /\ step_log[i].n = 1

\* the entries of the step log of configuration n with the given step
StepsOf(n, step) == {i \in DOMAIN step_log : step_log[i].n = n /\ step_log[i].step = step}

\* all that has to precede the move of the wheel of configuration n: the build
\* and the repair succeeded, no test step failed, and when a test command is
\* set the test command ran and succeeded (on macOS: unless the wheel is an
\* arm64 wheel on an x86_64 host, which has no architecture to be tested on)
Passed(n) ==
    /\ \E i \in StepsOf(n, "build") : step_log[i].ok
    /\ \E i \in StepsOf(n, "repair") \cup StepsOf(n, "repair_mv") : step_log[i].ok
    /\ \A i \in StepsOf(n, "test_venv") \cup StepsOf(n, "test_install")
                \cup StepsOf(n, "test_command") : step_log[i].ok
    /\ options.test_command =>
        \/ \E i \in StepsOf(n, "test_command") : step_log[i].ok
        \/ /\ host = "macos" /\ machine_arch = "x86_64"
           /\ Last(python_configurations[n].identifier) = "arm64"

\* C11: on both drivers every wheel in the output (the host output directory
\* and, on Linux, /output of the container) was moved there by the move step
\* of a configuration whose build and repair succeeded and whose test runs, when
\* a test command is set, all succeeded.
C11_OutputOnlyAfterTests ==
    \A w \in output_dir \cup container_output :
        \E i \in DOMAIN step_log :
            /\ step_log[i].step = "move" /\ step_log[i].ok
            /\ w \in step_log[i].arg
            /\ Passed(step_log[i].n)

\* a wheel of the first platform is in the host output directory and a test of
\* a configuration of the second platform has failed
C11_Witness ==
    /\ host = "linux" /\ options.test_command /\ output_dir # {}
    /\ \E i \in DOMAIN step_log : step_log[i].step = "test_command" /\ ~step_log[i].ok

\* the wheels the build of the project leaves for configuration c
ProducedFor(c) ==
    UNION (IF host = "linux" THEN LinuxBuildOutputs(options.project_dir, c)
           ELSE MacBuildOutputs(options.project_dir, c))

\* the build step of the current configuration is done
BuildDone ==
    \/ host = "linux" /\ pc = "script"
         /\ script_pc \in {"repair", "test_venv", "test_install", "test_command", "move"}
    \/ host = "macos" /\ pc \in {"repair", "test_venv", "test_install", "test_command", "move"}

\* the repair step of the current configuration is done
RepairDone ==
    \/ host = "linux" /\ pc = "script"
         /\ script_pc \in {"test_venv", "test_install", "test_command", "move"}
    \/ host = "macos" /\ pc \in {"test_venv", "test_install", "test_command", "move"}

\* the name of wheel w without its platform tag, which the repair may change
Untagged(w) == SubSeq(w, 1, 3)

\* C12: on both drivers, once the build step of a configuration is done the
\* built-wheel directory holds only wheels built for that configuration and
\* the wheel picked up is one of them; once its repair step is done the
\* repaired-wheel directory holds only the wheels picked up, which are the
\* repaired forms of that built wheel.  Nothing of an earlier configuration is
\* in either directory.
C12_StageDirectoriesFresh ==
    /\ BuildDone =>
        /\ built_wheel_dir \subseteq ProducedFor(config)
        /\ built_wheel \in ProducedFor(config)
    /\ RepairDone =>
        /\ repaired_wheel_dir = Range(repaired_wheel)
        /\ repaired_wheel # <<>>
        /\ \A w \in repaired_wheel_dir : Untagged(w) = Untagged(built_wheel)

\* a second configuration is past its repair, and the repair command of the
\* first configuration had left the wheel it built in the built-wheel directory
C12_Witness ==
    /\ RepairDone /\ options.repair_command
    /\ \E i \in DOMAIN step_log : step_log[i].step = "build" /\ step_log[i].n = 2
    /\ \E i \in StepsOf(1, "repair") : step_log[i].ok

\* C13: on both drivers a build step that leaves more or fewer than one wheel
\* in the built-wheel directory is the last step of the run, which ends with an
\* error instead of going on with one of the wheels.
C13_OneWheelOrError ==
    \A i \in DOMAIN step_log :
        (step_log[i].step = "build" /\ step_log[i].ok /\ Cardinality(step_log[i].arg) # 1) =>
            /\ i = Len(step_log)
            /\ pc \in {"finally", "left"}
            /\ exc # "none"

\* one of two built wheels has reached the output directory
C13_Witness ==
    /\ options.project_dir = "two wheels" /\ pc = "left" /\ exc = "none"
    /\ output_dir # {}

\* the file name that a repaired wheel named w has to have after the rename
AfterRename(w) ==
    IF w[Len(w) - 1] = "universal2" /\ w[Len(w) - 2] = "_"
    THEN SubSeq(w, 1, Len(w) - 1) \o <<".", "macosx_11_0", "_", "universal2", ".whl">>
    ELSE w

\* C14: on macOS the wheel that is installed for the tests and the wheel that
\* is moved to the output directory is the wheel that the repair step was run
\* on, under the name <stem>.macosx_11_0_universal2.whl when its stem ends in
\* _universal2 and under its own name otherwise; the rename is done when the
\* repair step has ended.
C14_Universal2Renamed ==
    host = "macos" =>
        /\ RepairDone => repaired_wheel = <<AfterRename(built_wheel)>>
        /\ \A i \in DOMAIN step_log :
            step_log[i].step \in {"repair", "repair_mv"} =>
                \A j \in (i + 1)..Len(step_log) :
                    step_log[j].n = step_log[i].n =>
                        /\ step_log[j].step = "test_install" =>
                               step_log[j].arg = AfterRename(step_log[i].arg)
                        /\ step_log[j].step = "move" =>
                               step_log[j].arg = {AfterRename(step_log[i].arg)}

\* a renamed universal2 wheel was tested and has reached the output directory
C14_Witness ==
    /\ host = "macos" /\ options.test_command
    /\ \E w \in output_dir :
        /\ w[Len(w) - 1] = "universal2" /\ w[Len(w) - 3] = "macosx_11_0"
        /\ \E i \in DOMAIN step_log : step_log[i].step = "test_install" /\ step_log[i].arg = w

\* C15: on macOS every test command is run with working directory $HOME,
\* right after the successful installation of the repaired wheel of the same
\* configuration, which comes right after the successful creation of a virtual
\* environment for that test architecture; the directory of that environment
\* did not exist before, and no two test runs of a configuration are for the
\* same architecture.
C15_TestRun ==
    host = "macos" =>
        /\ pc = "test_venv" => venv_dir \notin temp_dirs
        /\ pc \in {"test_install", "test_command"} => venv_dir \in temp_dirs
        /\ \A i \in DOMAIN step_log :
            step_log[i].step = "test_command" =>
                /\ step_log[i].arg = "$HOME"
                /\ i > 2
                /\ step_log[i - 1].step = "test_install" /\ step_log[i - 1].ok
                /\ step_log[i - 1].n = step_log[i].n
                /\ \E k \in StepsOf(step_log[i].n, "repair") \cup StepsOf(step_log[i].n, "repair_mv") :
                       k < i /\ step_log[i - 1].arg = AfterRename(step_log[k].arg)
                /\ step_log[i - 2].step = "test_venv" /\ step_log[i - 2].ok
                /\ step_log[i - 2].n = step_log[i].n
        /\ \A i, j \in DOMAIN step_log :
            (i < j /\ step_log[i].step = "test_venv" /\ step_log[j].step = "test_venv"
                /\ step_log[i].n = step_log[j].n) => step_log[i].arg[1] # step_log[j].arg[1]

\* a universal2 wheel was tested on arm64 and then on x86_64
C15_Witness ==
    /\ host = "macos" /\ machine_arch = "arm64"
    /\ \E i, j \in DOMAIN step_log :
        /\ i < j /\ step_log[i].n = step_log[j].n
        /\ step_log[i].step = "test_command" /\ step_log[j].step = "test_command"

\* C16: on Linux no docker child is running while run_docker is not waiting
\* for one, and when run_docker was left because of an interrupt its child has
\* been killed and waited for.
C16_ChildReaped ==
    host = "linux" =>
        /\ child = "running" => pc = "script"
        /\ (pc = "finally" /\ returncode = -9) => child = "reaped"
        /\ (pc = "finally" /\ docker_log # <<>> /\ Last(docker_log).result = "interrupted")
               => child = "reaped"

\* the script of a configuration was interrupted during its test command
C16_Witness ==
    /\ host = "linux" /\ pc = "finally" /\ returncode = -9 /\ child = "reaped"
    /\ script_pc = "test_command"

\* C17: on Linux, when the script of a configuration was interrupted (its
\* docker child was killed, return code -9), build() is left by the interrupt:
\* the exception that leaves build() is KeyboardInterrupt.
C17_InterruptPropagated ==
    (host = "linux" /\ pc = "left" /\ returncode = -9) => exc = "KeyboardInterrupt"

\* build() was left with exit(1) after an interrupt of the script, the
\* container removed
C17_Witness ==
    /\ host = "linux" /\ pc = "left" /\ returncode = -9 /\ child = "exited"
    /\ exc = "SystemExit1" /\ containers = {}

\* C18: on both drivers, when a hook command is malformed the error of
\* prepare_command is raised before any session is started: no `docker create`
\* has been issued, no interpreter has been installed and no step has run.
C18_TemplateErrorBeforeSession ==
    exc = "TemplateError" =>
        /\ \A i \in DOMAIN docker_log : docker_log[i].cmd # "create"
        /\ SYMLINKS_DIR \subseteq StaleLinks
        /\ step_log = <<>>

\* the error of a malformed before_build hook left build() after the container
\* was created and removed again
C18_Witness ==
    /\ host = "linux" /\ pc = "left" /\ exc = "TemplateError"
    /\ \E i \in DOMAIN docker_log : docker_log[i].cmd = "create" /\ docker_log[i].result = "ok"
    /\ Last(docker_log).cmd = "rm"


\* C19: no command is retried.  Each step of each configuration is logged at
\* most once (on macOS the test steps once per tested architecture, each in a
\* virtual environment of its own), a step that failed is the last step of the
\* run, each docker command is issued at most once for a container and a
\* configuration, and a docker command that failed is not issued again.
TestSteps == {"test_venv", "test_install", "test_command"}

C19_NeverRetried ==
    /\ \A i, j \in DOMAIN step_log :
          (i < j /\ step_log[i].n = step_log[j].n /\ step_log[i].step = step_log[j].step) =>
              /\ host = "macos"
              /\ step_log[i].step \in TestSteps
              /\ IF step_log[i].step = "test_venv"
                 THEN step_log[i].arg # step_log[j].arg
                 ELSE \E k \in (i + 1)..(j - 1) :
                         step_log[k].n = step_log[i].n /\ step_log[k].step = "test_venv"
    /\ \A i \in DOMAIN step_log : ~step_log[i].ok => i = Len(step_log)
    /\ \A i, j \in DOMAIN docker_log :
          (i < j /\ docker_log[i].cmd = docker_log[j].cmd) =>
              /\ docker_log[i].result \in {"ok", "started"}
              /\ <<docker_log[i].name, docker_log[i].n>> # <<docker_log[j].name, docker_log[j].n>>

\* the build of the first of two configurations failed, and the run is over
C19_Witness ==
    /\ pc = "left"
    /\ Len(python_configurations) = 2
    /\ \E i \in DOMAIN step_log :
          step_log[i].n = 1 /\ step_log[i].step = "build" /\ ~step_log[i].ok

\* C20: at every point of a Linux run at most one container of the driver
\* exists, and when `docker create` of a platform is about to be issued the
\* container of the platform before it is gone.
C20_OneContainer ==
    host = "linux" =>
        /\ Cardinality(containers) <= 1
        /\ pc = "docker_create" => containers = {}
        /\ pc \in TryBody \cup {"script", "finally"} => containers \subseteq {container_name}

\* the container of the second platform exists, the first one was made and removed
C20_Witness ==
    /\ host = "linux" /\ container_name = 2 /\ containers = {2}
    /\ \E i \in DOMAIN docker_log :
          docker_log[i].cmd = "create" /\ docker_log[i].name = 1 /\ docker_log[i].result = "ok"

\* the entries of the docker log that name container c
NamedIn(c) == {i \in DOMAIN docker_log : docker_log[i].name = c}

RmOf(c) == {i \in NamedIn(c) : docker_log[i].cmd = "rm"}

\* C21: the life of a container on Linux.  `docker create` is the first
\* command that names it, `docker rm` is issued at most once for it and is the
\* last command that names it, and once build() is outside the try statement of
\* the container `docker rm` has been issued exactly once.
C21_CreatedThenRemovedOnce ==
    host = "linux" =>
        \A c \in 1..container_name :
            /\ Cardinality(RmOf(c)) <= 1
            /\ \A i \in RmOf(c), j \in NamedIn(c) : j <= i
            /\ \A i \in NamedIn(c) :
                  docker_log[i].cmd \notin {"create", "rm"} =>
                      \E j \in 1..(i - 1) : docker_log[j].cmd = "create"
                                             /\ docker_log[j].name = c
                                             /\ docker_log[j].result = "ok"
            /\ (OutsideTry /\ (pc = "docker_create" => c < container_name)) =>
                  Cardinality(RmOf(c)) = 1

\* both platforms had a container in which a script was started, and both
\* containers were removed
C21_Witness ==
    /\ host = "linux" /\ pc = "left" /\ container_name = 2
    /\ \A c \in {1, 2} :
          /\ \E i \in NamedIn(c) : docker_log[i].cmd = "start"
          /\ \E i \in RmOf(c) : docker_log[i].result = "ok"

\* `docker --version` did not succeed
DockerUnavailable ==
    /\ docker_log # <<>>
    /\ docker_log[1].cmd = "--version" /\ docker_log[1].result # "ok"

\* C23: when `docker --version` fails, the Linux build() is left with exit
\* status 2, and no configuration has been enumerated, no container has been
\* named or created, no other docker command issued and no step run.
C23_DockerUnavailable ==
    (host = "linux" /\ DockerUnavailable) =>
        /\ pc = "left" /\ exc = "SystemExit2"
        /\ python_configurations = <<>>
        /\ container_name = 0 /\ containers = {}
        /\ Len(docker_log) = 1
        /\ step_log = <<>>

\* the selector accepts identifiers, and docker is not there
C23_Witness ==
    /\ host = "linux" /\ DockerUnavailable
    /\ LinuxGetPythonConfigurations(options.build_selector) # <<>>

\* build() has returned: every configuration was processed and nothing was raised
Succeeded == pc = "left" /\ exc = "none" /\ python_configurations # <<>>

MovedBy(n) == UNION {step_log[i].arg : i \in {j \in StepsOf(n, "move") : step_log[j].ok}}

MacCommandRuns ==
    /\ host = "macos"
    /\ pc \in {"before_build", "build", "repair", "test_venv", "test_install", "test_command"}

\* C25: whenever a before-build, build, repair or test command is about to run
\* for a configuration on macOS, /tmp/cibw_bin holds exactly three links, named
\* python, python-config and pip, each pointing into the bin directory of that
\* configuration's interpreter: nothing that was in the directory before the
\* configuration's setup_python is left.
C25_LinksOfCurrentConfiguration ==
    MacCommandRuns =>
        /\ Cardinality(SYMLINKS_DIR) = 3
        /\ {l.name : l \in SYMLINKS_DIR} = {"python", "python-config", "pip"}
        /\ \A l \in SYMLINKS_DIR : l.target[1] = InstallationBinPath(config)
        /\ SYMLINKS_DIR \cap StaleLinks = {}
        /\ \A n \in 1..(config_index - 1) :
              InstallationBinPath(python_configurations[n]) # InstallationBinPath(config)
                  => SYMLINKS_DIR \cap Links(python_configurations[n]) = {}

\* the second configuration is being built, after the wheel of the first, whose
\* interpreter is installed elsewhere, was moved to the output directory
C25_Witness ==
    /\ MacCommandRuns /\ pc = "build" /\ config_index = 2
    /\ \E i \in StepsOf(1, "move") : step_log[i].ok
    /\ InstallationBinPath(python_configurations[1]) # InstallationBinPath(config)

\* C27: when the macOS build() has returned or raised, no temporary directory
\* that it made is left: neither the directory that holds built_wheel and
\* repaired_wheel nor the directory of a test virtual environment.
C27_TemporaryDirectoriesRemoved ==
    (host = "macos" /\ pc = "left") => temp_dirs = {}

\* build() has returned after a successful run with tests, and the directory
\* made at its start is still there
C27_Witness ==
    /\ host = "macos" /\ pc = "left" /\ exc = "none"
    /\ output_dir # {} /\ options.test_command
    /\ temp_dirs = {"temp_dir"}

\* C30: once the macOS build() is past its check of the architectures, the
\* 'Invalid archs option' ValueError has been raised exactly when
\* options.architectures has a member outside x86_64, universal2 and arm64; a
\* request of allowed architectures only goes on to building.
C30_InvalidArchsRaises ==
    (host = "macos" /\ pc # "archs") =>
        ((exc = "ValueError") <=> (options.architectures \ AllowedArchs # {}))

\* the request for x86_64 alone was refused
C30_Witness ==
    /\ host = "macos" /\ pc = "left" /\ exc = "ValueError"
    /\ options.architectures = {"x86_64"}
    /\ step_log = <<>> /\ temp_dirs = {}

\* C22: the values of the user's environment variables are in no argument of a
\* docker command line; every docker command is spawned; the only thing written
\* to a standard input is the script given to `docker start`, and the shell
\* that reads it finds, for every variable, the export command with the whole
\* value, 127 KiB long, one variable or four.
InArgument(value, arg) ==
    \E i \in 1..(Len(arg) - Len(value) + 1) : SubSeq(arg, i, i + Len(value) - 1) = value

ExportOf(a) == << <<"export">>, <<a.name, "=">> \o a.value >>

C22_EnvironmentOnStandardInput ==
    /\ \A k \in DOMAIN docker_log :
          /\ docker_log[k].result = "ok"
          /\ \A j \in DOMAIN docker_log[k].argv, i \in DOMAIN options.environment :
                ~InArgument(options.environment[i].value, docker_log[k].argv[j])
          /\ docker_log[k].cmd # "start" => docker_log[k].stdin = <<>>
    /\ step_log # <<>> =>
          /\ \A i \in DOMAIN options.environment :
                /\ ExportOf(options.environment[i]) \in Range(step_log[1].arg)
                /\ StrLen(ExportOf(options.environment[i])[2]) > long_env_var_length

\* four variables of 127 KiB each have been read by the shell of the container
C22_Witness ==
    /\ Len(options.environment) = 4
    /\ \A i \in 1..4 : StrLen(options.environment[i].value) = long_env_var_length
    /\ step_log # <<>>
    /\ ExportOf(options.environment[4]) \in Range(step_log[1].arg)
    /\ pc = "left"

\* C26: whatever value the user gave for a hook command, the test requirements
\* or the test extras, the shell that reads the script finds no quotation left
\* open and exactly the commands it finds for a harmless value in the same
\* place, with the user's value, character for character, where the harmless
\* one stood: no word is split or altered, no command is added.
Harmless == "v"

\* the value as build() means it to arrive: a hook command with its
\* placeholders filled in, the other values as given
Meant(opts) ==
    CASE opts.slot \in {"before_build", "test_command"} ->
           prepare_command(opts.value, ProjectFills)
      [] opts.slot = "repair_command" -> prepare_command(opts.repair_command, RepairFills)
      [] OTHER -> opts.value

CommandsMeant(opts, c) ==
    LET harmless == ShellCommands(Script(ScriptOptions(opts.slot, <<Harmless>>, opts.environment), c),
                                  ContainerVars).cmds
    IN  [i \in DOMAIN harmless |->
           [j \in DOMAIN harmless[i] |-> ReplaceToken(harmless[i][j], Harmless, Meant(opts))]]

C26_InterpolatedValuesQuoted ==
    (step_log # <<>> /\ options.value # <<>>) =>
        /\ step_log[1].ok
        /\ step_log[1].arg = CommandsMeant(options, config)

\* a test requirement `;a` has made a command of its own, `a`, after
\* `pip install q`
C26_Witness ==
    /\ options.slot = "test_requires" /\ options.value = <<";", "a">>
    /\ step_log # <<>>
    /\ \E i \in DOMAIN step_log[1].arg :
          /\ i > 1
          /\ step_log[1].arg[i] = << <<"a">> >>
          /\ step_log[1].arg[i - 1] = << <<"pip">>, <<"install">>, <<"q">> >>

\* C28: in the evaluation of an assignment list, the value given to the name
\* of an expression is its word with every $NAME replaced by the value of the
\* latest earlier assignment of NAME, else by NAME's value in the base
\* environment, else by nothing; no assignment raises; the environment
\* returned holds, for an assigned name, the value of its last assignment and,
\* for any other name, the base value.
ValueAt(i) == step_log[i].arg[options.environment[i].name]

Earlier(i, name) == {j \in 1..(i - 1) : options.environment[j].name = name}

Latest(indices) == CHOOSE j \in indices : \A k \in indices : k <= j

SeenBy(i) ==
    [name \in NameTokens |->
        IF Earlier(i, name) # {} THEN ValueAt(Latest(Earlier(i, name)))
        ELSE IF name \in DOMAIN options.prev_environment THEN options.prev_environment[name]
        ELSE <<>>]

C28_EarlierAssignmentsAndBase ==
    /\ \A i \in DOMAIN step_log :
          options.environment[i].kind = "expression" =>
              <<"value", ValueAt(i)>> = evaluate(options.environment[i].value, SeenBy(i))
    /\ exc = "none"
    /\ pc = "evaluated" =>
          LET last == Len(options.environment) + 1
              returned == EnvironmentSoFar
          IN  /\ DOMAIN returned = DOMAIN options.prev_environment
                                     \cup {options.environment[i].name : i \in DOMAIN options.environment}
              /\ \A name \in DOMAIN returned :
                    returned[name] = IF Earlier(last, name) # {}
                                     THEN ValueAt(Latest(Earlier(last, name)))
                                     ELSE options.prev_environment[name]

\* B="$B" and then A="a $A $B" against {A: spam}: B is defined nowhere when it
\* is first read and ends empty, A is made of the base's A and the earlier B
C28_Witness ==
    /\ pc = "evaluated"
    /\ options.prev_environment = [n \in {"A"} |-> <<"spam">>]
    /\ Len(options.environment) = 2
    /\ options.environment[1] = [name |-> "B", kind |-> "expression",
                                 value |-> <<"\"", "$", "B", "\"">>]
    /\ options.environment[2] = [name |-> "A", kind |-> "expression",
                                 value |-> <<"\"", "a", " ", "$", "A", " ", "$", "B", "\"">>]
    /\ EnvironmentSoFar["B"] = <<>>
    /\ EnvironmentSoFar["A"] = <<"a", " ", "spam", " ">>

\* C29: a value passed through from the host or written as a literal of the
\* configuration is, once its assignment is evaluated, the value of its name
\* in the environment, character for character, and no evaluation raises:
\* for a value in quotes, one with an unclosed single or double quote, one
\* with newlines and one ending in a backslash.
C29_VerbatimValuesPreserved ==
    /\ exc = "none"
    /\ \A i \in DOMAIN step_log :
          options.environment[i].kind \in {"pass", "literal"} =>
              ValueAt(i) = options.environment[i].value

\* a passed value with an unclosed single quote and a literal value ending in
\* a backslash are in the environment returned
C29_Witness ==
    /\ pc = "evaluated"
    /\ Len(options.environment) = 2
    /\ options.environment[1] = [name |-> "A", kind |-> "pass", value |-> <<"a", ":", " ", "'">>]
    /\ options.environment[2] = [name |-> "B", kind |-> "literal", value |-> <<"a", " ", "\\">>]
    /\ EnvironmentSoFar["A"] = <<"a", ":", " ", "'">>
    /\ EnvironmentSoFar["B"] = <<"a", " ", "\\">>

\* C31: on macOS the architectures a wheel is tested on depend on the host
\* machine and the suffix of the identifier only, as in the table below; with a
\* test command set, a configuration whose wheel was moved to the output has
\* had one test environment and one test command for each architecture of the
\* table, in the table's order, and a configuration under way has had them for
\* a beginning of the table; without a test command there is no test step.
ClaimedTestingArchs(machine, suffix) ==
    CASE machine = "x86_64" /\ suffix = "arm64" -> <<>>
      [] machine = "x86_64" /\ suffix \in {"x86_64", "universal2"} -> <<"x86_64">>
      [] machine = "arm64" /\ suffix = "x86_64" -> <<"x86_64">>
      [] machine = "arm64" /\ suffix = "universal2" -> <<"arm64", "x86_64">>
      [] machine = "arm64" /\ suffix = "arm64" -> <<"arm64">>
      [] OTHER -> <<"no such host or suffix">>

\* the architectures of the test environments made for configuration n, in order
VenvArchs(n) ==
    LET made == SelectSeq(step_log, LAMBDA e : e.n = n /\ e.step = "test_venv")
    IN  [k \in DOMAIN made |-> made[k].arg[1]]

IsPrefix(s, t) == Len(s) <= Len(t) /\ s = SubSeq(t, 1, Len(s))

C31_TestingArchs ==
    host = "macos" =>
      \A n \in DOMAIN python_configurations :
        LET claimed == IF options.test_command
                       THEN ClaimedTestingArchs(machine_arch,
                                                Last(python_configurations[n].identifier))
                       ELSE <<>>
            commands == StepsOf(n, "test_command")
        IN  /\ (VenvArchs(n) # <<>> \/ commands # {}) => IsPrefix(VenvArchs(n), claimed)
            /\ Cardinality(commands) \in {Len(VenvArchs(n)), Len(VenvArchs(n)) - 1}
            /\ \A i \in commands :
                  /\ i > 2
                  /\ step_log[i - 2].step = "test_venv" /\ step_log[i - 2].n = n
            /\ StepsOf(n, "move") # {} =>
                  /\ VenvArchs(n) = claimed
                  /\ Cardinality(commands) = Len(claimed)
                  /\ \A i \in commands : step_log[i].ok

\* on an arm64 host a universal2 wheel was tested on arm64, then on x86_64, and
\* moved to the output
C31_Witness ==
    /\ host = "macos" /\ machine_arch = "arm64" /\ options.test_command
    /\ \E n \in DOMAIN python_configurations :
          /\ Last(python_configurations[n].identifier) = "universal2"
          /\ StepsOf(n, "move") # {}
          /\ VenvArchs(n) = <<"arm64", "x86_64">>
          /\ Cardinality(StepsOf(n, "test_command")) = 2

\* C32: the RuntimeError of the macOS test phase is never raised.  For every
\* machine (x86_64, arm64, and one that is neither) and every configuration of
\* the catalog, each architecture to test on is the machine's own or is x86_64
\* on an arm64 machine, and the prefix of the test commands is `arch -x86_64`
\* in the second case and empty in the first; in a run, no RuntimeError is in
\* flight and every test environment was made with the prefix so determined.
Rosetta(machine, arch) == machine = "arm64" /\ arch = "x86_64"

C32_EmulationAlwaysKnown ==
    /\ \A machine \in MachineArchs \cup {"i386"}, k \in DOMAIN MacCatalog :
          \A arch \in Range(MacTestingArchs(machine, MacCatalog[k])) :
             /\ arch = machine \/ Rosetta(machine, arch)
             /\ MacArchPrefix(machine, arch) =
                   (IF Rosetta(machine, arch) THEN <<"arch", "-x86_64">> ELSE <<>>)
    /\ exc # "RuntimeError"
    /\ \A i \in DOMAIN step_log :
          (host = "macos" /\ step_log[i].step = "test_venv") =>
              step_log[i].arg[2] = (IF Rosetta(machine_arch, step_log[i].arg[1])
                                    THEN <<"arch", "-x86_64">> ELSE <<>>)

\* on an arm64 host the test environment of an x86_64 wheel was made with the
\* prefix, and the test command has run
C32_Witness ==
    /\ host = "macos" /\ machine_arch = "arm64" /\ exc = "none"
    /\ \E i \in DOMAIN step_log :
          /\ step_log[i].step = "test_venv"
          /\ step_log[i].arg = <<"x86_64", <<"arch", "-x86_64">> >>
          /\ Last(python_configurations[step_log[i].n].identifier) = "x86_64"
          /\ StepsOf(step_log[i].n, "test_command") # {}

\* C33: on macOS, the environment setup_python goes on with after its defaults
\* has every variable of the environment it had after the user's assignments
\* with the same value, MACOSX_DEPLOYMENT_TARGET, _PYTHON_HOST_PLATFORM and
\* ARCHFLAGS included; the variables added are among these three; a deployment
\* target that was absent is 10.9 for every configuration; a host platform or
\* arch flags that were absent are supplied exactly for version 3.5 or 3.9
\* with an identifier ending in x86_64 or arm64.
ClaimedSupplied(c, name) ==
    \/ name = "MACOSX_DEPLOYMENT_TARGET"
    \/ /\ name \in {"_PYTHON_HOST_PLATFORM", "ARCHFLAGS"}
       /\ c.version \in {<<"3", ".", "5">>, <<"3", ".", "9">>}
       /\ Last(c.identifier) \in {"x86_64", "arm64"}

C33_DefaultsOnlyWhenAbsent ==
    \A i \in DOMAIN step_log :
       (host = "macos" /\ step_log[i].step = "defaults") =>
          LET before == step_log[1].arg
              after == step_log[i].arg
              c == python_configurations[step_log[i].n]
          IN  /\ step_log[1].step = "environment"
              /\ DOMAIN before \subseteq DOMAIN after
              /\ \A name \in DOMAIN before : after[name] = before[name]
              /\ (DOMAIN after \ DOMAIN before) \subseteq DefaultedNames
              /\ \A name \in DefaultedNames \ DOMAIN before :
                    name \in DOMAIN after <=> ClaimedSupplied(c, name)
              /\ "MACOSX_DEPLOYMENT_TARGET" \notin DOMAIN before =>
                    after["MACOSX_DEPLOYMENT_TARGET"] = <<"10.9">>

\* for the arm64 configuration of 3.9 the user set ARCHFLAGS only: it is kept,
\* and the deployment target and the host platform are supplied
C33_Witness ==
    /\ host = "macos" /\ pc = "done"
    /\ Last(python_configurations[1].identifier) = "arm64"
    /\ DOMAIN step_log[1].arg = {"PATH", "ARCHFLAGS"}
    /\ SetupEnv["ARCHFLAGS"] = <<"user">>
    /\ SetupEnv["_PYTHON_HOST_PLATFORM"] = <<"macosx-11.0-arm64">>
    /\ SetupEnv["MACOSX_DEPLOYMENT_TARGET"] = <<"10.9">>

\* C34: when, in the environment left by the user's assignments, `python` or
\* `pip` on PATH is not the one in the driver's directory (/tmp/cibw_bin on
\* macOS, $PYBIN on Linux), neither the before-build hook nor the build of the
\* wheel of that configuration runs: the run is still at the comparisons, or
\* it has been left with exit(1).
Drivers(environment) ==
    /\ which("python", environment) = <<DriverBin, "/", "python">>
    /\ which("pip", environment) = <<DriverBin, "/", "pip">>

C34_ForeignInterpreterAborts ==
    (step_log # <<>> /\ ~Drivers(step_log[1].arg)) =>
        /\ StepsOf(1, "before_build") \cup StepsOf(1, "build") = {}
        /\ pc \in {"which python", "which pip", "left"}
        /\ pc = "left" => exc = "SystemExit1"

\* the user put a directory with another pip first on PATH: the comparison of
\* pip failed and the run was left with exit(1)
C34_Witness ==
    /\ pc = "left" /\ exc = "SystemExit1"
    /\ which("pip", step_log[1].arg) = <<"/user/pip", "/", "pip">>
    /\ which("python", step_log[1].arg) = <<DriverBin, "/", "python">>
    /\ Last(step_log) = [n |-> 1, step |-> "which pip", ok |-> FALSE,
                         arg |-> <<"/user/pip", "/", "pip">>]

\* C35: on Linux, every docker command that names a container names the
\* container of a platform that has a selected configuration, the k-th such
\* platform having the k-th container; a container is created at most once and
\* the project is copied into it at most once, after its creation and before
\* every script run in it; a configuration's script runs in the container of
\* its platform, and the scripts of a container run in catalog order, each
\* configuration at most once; after a run without failure every platform with
\* a selected configuration has had its container created and the project
\* copied, and every selected configuration has run.
RunOrder ==
    PlatformConfigs(python_configurations, LinuxPlatforms[1])
    \o PlatformConfigs(python_configurations, LinuxPlatforms[2])

Populated == {q \in DOMAIN LinuxPlatforms :
                 PlatformConfigs(python_configurations, LinuxPlatforms[q]) # <<>>}

PlatformOf(c) == CHOOSE q \in DOMAIN LinuxPlatforms : EndsWith(c.identifier, LinuxPlatforms[q])

ContainerOf(q) == Cardinality({r \in Populated : r <= q})

CatalogIndex(c) == CHOOSE k \in DOMAIN LinuxCatalog : LinuxCatalog[k] = c

DockerOf(cmd, c) == {i \in NamedIn(c) : docker_log[i].cmd = cmd}

C35_OneContainerPerPlatform ==
    host = "linux" =>
      /\ \A i \in DOMAIN docker_log :
            docker_log[i].cmd # "--version" => docker_log[i].name \in 1..Cardinality(Populated)
      /\ \A c \in 1..container_name :
            /\ Cardinality(DockerOf("create", c)) <= 1
            /\ Cardinality(DockerOf("cp project", c)) <= 1
            /\ \A i \in DockerOf("cp project", c) :
                  /\ \E j \in DockerOf("create", c) : j < i /\ docker_log[j].result = "ok"
                  /\ \A j \in DockerOf("start", c) : i < j
            /\ \A j \in DockerOf("start", c) :
                  /\ \E i \in DockerOf("cp project", c) : docker_log[i].result = "ok"
                  /\ docker_log[j].n \in DOMAIN RunOrder
                  /\ ContainerOf(PlatformOf(RunOrder[docker_log[j].n])) = c
            /\ \A i, j \in DockerOf("start", c) :
                  i < j => CatalogIndex(RunOrder[docker_log[i].n])
                             < CatalogIndex(RunOrder[docker_log[j].n])
      /\ (pc = "left" /\ exc = "none" /\ docker_log # <<>>) =>
            /\ \A q \in Populated :
                  /\ Cardinality(DockerOf("create", ContainerOf(q))) = 1
                  /\ Cardinality(DockerOf("cp project", ContainerOf(q))) = 1
            /\ \A n \in DOMAIN RunOrder :
                  Cardinality({i \in DOMAIN docker_log :
                                  docker_log[i].cmd = "start" /\ docker_log[i].n = n}) = 1

\* a run without failure with one configuration on each platform: two
\* containers, the project copied into each, one script in each
C35_Witness ==
    /\ host = "linux" /\ pc = "left" /\ exc = "none"
    /\ Populated = {1, 2} /\ Len(RunOrder) = 2
    /\ \A c \in {1, 2} :
          /\ Cardinality(DockerOf("create", c)) = 1
          /\ Cardinality(DockerOf("cp project", c)) = 1
          /\ \E i \in DockerOf("start", c) : docker_log[i].n = c

\* the two ABIs Python 2.7 has on manylinux
Cp27Abis == {<<"/opt/python/", "cp27-cp27m">>, <<"/opt/python/", "cp27-cp27mu">>}

\* positions i < j of the list get_python_configurations returned
EnumeratedPairs ==
    {p \in (DOMAIN python_configurations) \X (DOMAIN python_configurations) : p[1] < p[2]}

\* C36 as stated: no two configurations get_python_configurations returns share
\* an identifier, on Linux and on macOS, for every selector.
C36_IdentifiersDistinct ==
    (pc \in {"enumerated", "enumerated twice"}) =>
        \A p \in EnumeratedPairs :
            python_configurations[p[1]].identifier # python_configurations[p[2]].identifier

\* C36: on macOS no two configurations get_python_configurations returns share
\* an identifier; on Linux no two of them are the same configuration, and two
\* share an identifier only when they are the cp27m and the cp27mu interpreter
\* of one platform, which the catalog lists under one cp27 identifier.
C36_DistinctUpToPython27Abi ==
    (pc \in {"enumerated", "enumerated twice"}) =>
        \A p \in EnumeratedPairs :
            LET a == python_configurations[p[1]]
                b == python_configurations[p[2]]
            IN  /\ a # b
                /\ a.identifier = b.identifier =>
                       /\ host = "linux"
                       /\ StartsWith(a.identifier, <<"cp", "27">>)
                       /\ a.path # b.path
                       /\ {a.path, b.path} = Cp27Abis

\* the selector accepts the Python 2.7 identifier of both Linux platforms and
\* one more, and five configurations came back
C36_Witness ==
    /\ host = "linux" /\ pc = "enumerated"
    /\ Len(python_configurations) = 5
    /\ Cardinality(Identifiers(python_configurations)) = 3
    /\ python_configurations[1].identifier = python_configurations[2].identifier
    /\ python_configurations[4].identifier = python_configurations[5].identifier

\* positions of the runs of a command in shell_log
RunsOf(cmd) == {i \in DOMAIN shell_log : shell_log[i].cmd = cmd}

\* the two commands of git_repo_has_changes
DiffIndex == {"git diff-index --quiet HEAD --", "git diff-index --quiet --cached HEAD --"}

\* the temporary update branch has been checked out
OnUpdateBranch == \E i \in RunsOf("git checkout -b") : shell_log[i].returncode = 0

\* the last two commands main() ran were the checkout of the previous branch
\* and the deletion of the temporary branch, and both succeeded
RestoredAndDeleted ==
    /\ Len(shell_log) >= 2
    /\ LET checkout == shell_log[Len(shell_log) - 1]
           delete == shell_log[Len(shell_log)]
       IN  /\ checkout.cmd = "git checkout" /\ checkout.arg = options.HEAD
           /\ checkout.returncode = 0
           /\ delete.cmd = "git branch -D --force"
           /\ delete.arg = UpdateBranch(options.timestamp)
           /\ delete.returncode = 0

====
